---- MODULE Spec2Model ----
(***************************************************************************)
(* Conversation extraction, deduplication and merge-persist engine of the  *)
(* chatlogger extension: ChatConversationMonitor (poll scheduler, tracker, *)
(* extraction) and ChatLogger (saveConversation, loadSavedConversations).  *)
(***************************************************************************)
EXTENDS Integers, Sequences, FiniteSets, TLC

VARIABLES
    headers,                  \* store: row -> fullConversationHeadersOnly bubble ids
    db,                       \* monitor.db is a connection (TRUE) or null (FALSE)
    timer,                    \* monitor.timer is set
    isCheckingForChanges,     \* monitor.isCheckingForChanges
    lastProcessedComposerIds, \* monitor.lastProcessedComposerIds
    files,                    \* .chatlogger/conversations: file name -> record
    pc,                       \* position of each checkForChanges invocation
    queue,                    \* conversations an invocation still has to save
    clock,                    \* polls started so far; the wall clock is Now
    restarted,                \* the extension was activated again after Init
    failedReads,              \* point reads that failed in the latest step
    outcome,                  \* how the latest step ended, for a skipped trigger
                              \* or a save: "dropped", "nodb", "created", "merged",
                              \* "failed", "unsaved"; "none" after any other step
    workspaceFolders,         \* vscode.workspace.workspaceFolders[0].uri
    ignoreCodeOutput,         \* monitor.config.ignoreCodeOutput
    autoSave,                 \* monitor.config.autoSave
    composerData,             \* store: row -> the other fields of its value
    bubbleData,               \* store: bubble id -> its bubble record
    requestContexts,          \* store: bubble id -> rootPath of the project layout
                              \* of its messageRequestContext record
    authorDate,               \* author date of the repository's last commit
    conversations,            \* chatLogger.conversations: id -> conversation
    latest,                   \* .chatlogger/latest_conversation_since_git.json
    gitError,                 \* the latest step logged a failed git calculation
    existingContent,          \* saveConversation of each invocation: what it read
                              \* of the destination file and has not yet merged
    pendingReads,             \* getAllMessageRequestContexts: reads dispatched
                              \* and not completed
    contexts,                 \* getAllMessageRequestContexts: records pushed
    resolvedPath,             \* what extractWorkspacePathFromData returned
    phase,                    \* activate(): "loading" until start() has run, then
                              \* "started"; "disposed" after deactivate()
    toLoad                    \* files loadSavedConversations has still to read

\* what the polls read and never write
env == <<workspaceFolders, ignoreCodeOutput, autoSave, composerData, bubbleData,
         requestContexts, authorDate>>

\* the concurrent reads of one call of extractWorkspacePathFromData
reads == <<pendingReads, contexts, resolvedPath>>

\* the position of activate()
startup == <<phase, toLoad>>

vars == <<headers, db, timer, isCheckingForChanges, lastProcessedComposerIds,
          files, pc, queue, clock, restarted, failedReads, outcome,
          workspaceFolders, ignoreCodeOutput, autoSave, composerData,
          bubbleData, requestContexts, authorDate, conversations, latest,
          gitError, pendingReads, contexts, resolvedPath, phase, toLoad,
          existingContent>>

----------------------------------------------------------------------------
(* Bounds *)

MaxHeaders == 3     \* bubble headers in the store, all rows together
MaxPolls == 2       \* polls started (the clock stops there)
MaxInFlight == 2    \* checkForChanges invocations that can be pending at once

Slots == 1..MaxInFlight

----------------------------------------------------------------------------
(* The external store: rows of cursorDiskKV *)

Rows == <<"r1", "r2">>          \* in ORDER BY key order
RowSet == {Rows[n] : n \in 1..Len(Rows)}
Frags == {"f1", "f2", "f3", "f7"}
None == "none"

\* the bubbles the external application writes for the row's container
BubblesOf(r) == IF r = "r1" THEN Frags ELSE {"f1", "f2"}

\* composer id of the row's key, "composerData:<id>"
extractComposerIdFromKey(r) == IF r = "r1" THEN "c1" ELSE "c2"

\* data.composerId of the row's value
DataComposerId(r) == composerData[r].composerId

\* data.createdAt of the row's value; 0 when the record carries none
DataCreatedAt(r) == composerData[r].createdAt

\* bubbleData.type of the bubble record
BubbleType(f) == bubbleData[f].type

\* bubbleData.text of the bubble record: its words, whitespace runs (" "),
\* single backticks and backtick triples, in order
BubbleText(f) == bubbleData[f].text

\* row.value of the row: json is "object" (a composer record), "null" (the
\* JSON null) or "malformed" (not JSON)
\* JSON.parse(row.value) throws
DecodeFails(r) == composerData[r].json = "malformed"

\* parseConversationData throws on the decoded value and returns null from its
\* catch block: extractBubbleIdsFromComposerData reads a property of null
ParseThrows(r) == composerData[r].json = "null"

\* a URI: kind is "none" (no URI), "file", "ssh", "wsl" or "container"; id is
\* the host, distro or container id; path is what follows "file:///" or the
\* "/" after the authority, as a sequence of characters
NoUri == [kind |-> "none", id |-> <<>>, path |-> <<>>]
FileUri(path) == [kind |-> "file", id |-> <<>>, path |-> path]
RemoteUri(kind, id, path) == [kind |-> kind, id |-> id, path |-> path]

\* the store as the model starts: two containers of the local project /p1
DefaultComposerData ==
    [r \in RowSet |->
        [composerId |-> extractComposerIdFromKey(r),
         createdAt |-> IF r = "r1" THEN 3 ELSE 0,
         rootPath |-> <<"p", "1">>,
         remoteUri |-> NoUri,
         json |-> "object",
         name |-> <<>>,
         sessionId |-> None,
         title |-> <<>>]]

DefaultBubbleData ==
    [f \in Frags |->
        [type |-> CASE f = "f1" -> 1
                    [] f = "f2" -> 2
                    [] f = "f3" -> 1
                    [] f = "f7" -> 7,
         text |-> CASE f = "f1" -> <<"hi">>
                    [] f = "f2" -> <<"use", " ", "x">>
                    [] f = "f3" -> <<"ok", " ", "then", " ", "go">>
                    [] f = "f7" -> <<"tool">>]]

----------------------------------------------------------------------------
(* Project context *)

\* the workspace folder: kind is "none" (no folder open), "local", "ssh", "wsl"
\* or "container"; id is the host, distro or container id; path is uri.path
NoFolder == [kind |-> "none", id |-> <<>>, path |-> <<>>]
LocalFolder(path) == [kind |-> "local", id |-> <<>>, path |-> path]
RemoteFolder(kind, id, path) == [kind |-> kind, id |-> id, path |-> path]

\* workspaceFolders[0].uri.fsPath; the empty string when no folder is open
getCurrentWorkspacePath ==
    IF workspaceFolders.kind = "none" THEN <<>> ELSE workspaceFolders.path

\* the type of getCurrentWorkspaceInfo
getCurrentWorkspaceInfo == workspaceFolders.kind

WslPrefix == <<"w", "s", "l", ":">>
ContainerPrefix == <<"c", "o", "n", "t", "a", "i", "n", "e", "r", ":">>

\* the workspace string built from the authority and the path of a URI
WorkspaceString(uri) ==
    CASE uri.kind = "ssh" -> uri.id \o <<":">> \o uri.path
      [] uri.kind = "wsl" -> WslPrefix \o uri.id \o <<":">> \o uri.path
      [] uri.kind = "container" -> ContainerPrefix \o uri.id \o <<":">> \o uri.path
      [] uri.kind = "file" -> uri.path
      [] OTHER -> <<>>

\* the longest prefix of the path parts that is neither empty nor "/": the
\* whole path, unless the path is "/"
extractWorkspaceFromUri(uri) ==
    IF uri.kind = "none" \/ uri.path = <<>> \/ uri.path = <<"/">> THEN <<>>
    ELSE WorkspaceString(uri)

\* the first vscode-remote URI the bubbles of the container reference
extractRemoteWorkspaceFromBubbles(r) ==
    IF composerData[r].remoteUri.kind \in {"ssh", "wsl", "container"}
    THEN extractWorkspaceFromUri(composerData[r].remoteUri)
    ELSE <<>>

\* backupWorkspaces.folders of storage.json
backupWorkspaces ==
    <<FileUri(<<"p", "1">>), FileUri(<<"p", "1", "0">>),
      FileUri(<<"p", "1", "/", "s">>), FileUri(<<"p", "2">>)>>

\* decodedPath.split(/[\/\\:]/): the last part
LastPart(str) ==
    LET seps == {n \in 1..Len(str) : str[n] \in {"/", "\\", ":"}}
        last == IF seps = {} THEN 0
                ELSE CHOOSE n \in seps : \A m \in seps : m <= n
    IN  SubSeq(str, last + 1, Len(str))

RECURSIVE getWorkspacePathFromName(_, _)
getWorkspacePathFromName(workspaceName, folders) ==
    IF Len(folders) = 0 THEN <<>>
    ELSE LET decodedPath == IF Head(folders).path = <<>> THEN <<>>
                            ELSE WorkspaceString(Head(folders))
         IN  IF decodedPath # <<>> /\ LastPart(decodedPath) = workspaceName
             THEN decodedPath
             ELSE getWorkspacePathFromName(workspaceName, Tail(folders))

\* the loop of extractWorkspacePathFromData over the messageRequestContext
\* records in the order they were pushed, each record given by the rootPath of
\* its project layout: the first rootPath that storage.json resolves
RECURSIVE resolveProjectLayouts(_)
resolveProjectLayouts(records) ==
    IF Len(records) = 0 THEN <<>>
    ELSE LET found == IF Head(records) # <<>>
                      THEN getWorkspacePathFromName(Head(records), backupWorkspaces)
                      ELSE <<>>
         IN  IF found # <<>> THEN found
             ELSE resolveProjectLayouts(Tail(records))

\* the path extractWorkspacePathFromData resolves for the row's container; the
\* empty string when it resolves none. The records of the container's bubbles
\* carry one rootPath, composerData[r].rootPath
extractWorkspacePathFromData(r) ==
    LET remoteWorkspacePath ==
            IF getCurrentWorkspaceInfo # "local"
            THEN extractRemoteWorkspaceFromBubbles(r) ELSE <<>>
    IN  IF remoteWorkspacePath # <<>> THEN remoteWorkspacePath
        ELSE resolveProjectLayouts(<<composerData[r].rootPath>>)

startsWith(s, p) == Len(p) <= Len(s) /\ SubSeq(s, 1, Len(p)) = p

\* position of the first ":" of s, 0 when there is none
FirstColon(s) ==
    IF \E n \in 1..Len(s) : s[n] = ":"
    THEN CHOOSE n \in 1..Len(s) : s[n] = ":" /\ \A m \in 1..(n - 1) : s[m] # ":"
    ELSE 0

isSameWorkspace(conversationWorkspacePath, currentWorkspacePath) ==
    LET normCurrent == currentWorkspacePath
        colon == FirstColon(conversationWorkspacePath)
        stripped == IF colon >= 2
                    THEN SubSeq(conversationWorkspacePath, colon + 1,
                                Len(conversationWorkspacePath))
                    ELSE conversationWorkspacePath
        normConv == IF startsWith(stripped, <<"/">>) THEN stripped
                    ELSE <<"/">> \o stripped
    IN  startsWith(normConv, normCurrent)

----------------------------------------------------------------------------
(* Messages and derived statistics *)

\* a role mapping whose default case falls through to user
mapMessageTypeToRole_DefaultUser(type) ==
    CASE type = 2 -> "assistant"
      [] type = 0 -> "system"
      [] OTHER -> "user"

mapMessageTypeToRole(type) ==
    CASE type = 1 -> "user"
      [] type = 2 -> "assistant"
      [] type = 0 -> "system"
      [] OTHER -> None

MsPerSecond == 2     \* clock units per second of the locale time format

\* Date -> locale string: toLocaleString keeps whole seconds only
toLocalString(date) == date - (date % MsPerSecond)

\* locale string -> Date: new Date(string)
fromLocalString(str) == str

\* Math.ceil(n * 1.3)
Ceil13(n) == (13 * n + 9) \div 10

\* content.split(/\s+/).length: one piece more than the text has whitespace runs
SplitLength(content) ==
    Cardinality({n \in 1..Len(content) :
                    /\ content[n] = " "
                    /\ (n = 1 \/ content[n - 1] # " ")}) + 1

RECURSIVE SumTokens(_)
SumTokens(messages) ==
    IF Len(messages) = 0 THEN 0
    ELSE Ceil13(SplitLength(Head(messages).content)) + SumTokens(Tail(messages))

CountRole(messages, role) ==
    Cardinality({n \in 1..Len(messages) : messages[n].role = role})

\* a persist that keeps the statistics the conversation came with
recalculateMetadata_Stale(conversation) == conversation

recalculateMetadata(conversation) ==
    [conversation EXCEPT
        !.metadata = [@ EXCEPT
            !.totalMessages = Len(conversation.messages),
            !.userMessages = CountRole(conversation.messages, "user"),
            !.assistantMessages = CountRole(conversation.messages, "assistant"),
            !.totalTokensEstimated = SumTokens(conversation.messages)]]

\* msg.bubbleId || msg.id
MessageKey(msg) == IF msg.bubbleId # None THEN msg.bubbleId ELSE msg.id

----------------------------------------------------------------------------
(* ChatLogger.saveConversation *)

\* a merge that concatenates without filtering
mergeMessages_NoFilter(allMessages) == allMessages

\* the filter of the merge: keep a message unless an earlier one has its key
mergeMessages(allMessages) ==
    LET firstOfKey(n) == \A m \in 1..(n - 1) :
                             MessageKey(allMessages[m]) # MessageKey(allMessages[n])
        kept(n) == Cardinality({m \in 1..n : firstOfKey(m)})
        total == Cardinality({m \in 1..Len(allMessages) : firstOfKey(m)})
    IN  [k \in 1..total |->
            allMessages[CHOOSE n \in 1..Len(allMessages) :
                            firstOfKey(n) /\ kept(n) = k]]

\* `${isoString}_${composerId}.json`: the ISO form keeps the milliseconds
FileName(conversation) ==
    <<conversation.createdAt, conversation.metadata.composerId>>

\* a merge that stamps both dates with the merge time
mergeWithExisting_CreatedNow(conversation, existingConversation, now) ==
    recalculateMetadata(
        [conversation EXCEPT
            !.messages = mergeMessages(existingConversation.messages
                                       \o conversation.messages),
            !.createdAt = now,
            !.updatedAt = now])

\* the conversation that is written when the destination file exists
mergeWithExisting(conversation, existingConversation, now) ==
    recalculateMetadata(
        [conversation EXCEPT
            !.messages = mergeMessages(existingConversation.messages
                                       \o conversation.messages),
            !.createdAt = fromLocalString(existingConversation.createdAt),
            !.updatedAt = now])

\* the JSON that is written: every date as a locale string
conversationToSave(mergedConversation) ==
    [mergedConversation EXCEPT
        !.createdAt = toLocalString(mergedConversation.createdAt),
        !.updatedAt = toLocalString(mergedConversation.updatedAt),
        !.messages = [n \in 1..Len(mergedConversation.messages) |->
                        [mergedConversation.messages[n] EXCEPT
                            !.timestamp = toLocalString(@)]]]

\* a saveConversation that does not check the composer id
SaveThrows_Never(conversation) == FALSE

\* saveConversation throws before it writes
SaveThrows(conversation) == conversation.metadata.composerId = None

\* the directory after a save that did not throw and whose write succeeded
saveConversation(dir, conversation, now) ==
    LET fileName == FileName(conversation)
        mergedConversation ==
            IF fileName \in DOMAIN dir
            THEN mergeWithExisting(conversation, dir[fileName], now)
            ELSE recalculateMetadata(conversation)
    IN  (fileName :> conversationToSave(mergedConversation)) @@ dir

----------------------------------------------------------------------------
(* ChatLogger.loadSavedConversations and the tracker *)

BubbleIdsOf(messages) ==
    {messages[n].bubbleId : n \in 1..Len(messages)} \ {None}

markComposerIdProcessed(tracker, composerId, bubbleIds) ==
    [tracker EXCEPT ![composerId] = @ \cup bubbleIds]

Composers == {extractComposerIdFromKey(r) : r \in RowSet}

EmptyTracker == [c \in Composers |-> {}]

\* loadSavedConversations of a ChatLogger whose monitor was never set
loadSavedConversations_NoMonitor(tracker, dir, names) == tracker

\* the tracker after loadSavedConversations marked the files named in names
RECURSIVE loadSavedConversations(_, _, _)
loadSavedConversations(tracker, dir, names) ==
    IF names = {} THEN tracker
    ELSE LET fileName == CHOOSE fn \in names : TRUE
             conversation == dir[fileName]
             marked == IF conversation.metadata.composerId # None
                       THEN markComposerIdProcessed(tracker,
                                conversation.metadata.composerId,
                                BubbleIdsOf(conversation.messages))
                       ELSE tracker
         IN  loadSavedConversations(marked, dir, names \ {fileName})

----------------------------------------------------------------------------
(* ChatLogger's in-memory conversations and GitConversationTracker *)

\* this.conversations.set(conversation.id, conversation)
addConversation(map, conversation) ==
    (conversation.id :> conversation) @@ map

\* the map loadSavedConversations fills from the files of the directory, every
\* date parsed back from its locale string
loadedConversations(dir) ==
    LET ids == {dir[fileName].id : fileName \in DOMAIN dir}
    IN  [id \in ids |->
            LET conversation ==
                    dir[CHOOSE fileName \in DOMAIN dir : dir[fileName].id = id]
            IN  [conversation EXCEPT
                    !.createdAt = fromLocalString(@),
                    !.updatedAt = fromLocalString(@),
                    !.messages = [n \in 1..Len(conversation.messages) |->
                                     [conversation.messages[n] EXCEPT
                                         !.timestamp = fromLocalString(@)]]]]

\* lastGitCommitTime after updateLastGitCommitTime: the author date of the
\* last commit
updateLastGitCommitTime == authorDate

\* the output file: absent, or the flat array of messages as a set
NoLatest == [exists |-> FALSE, messages |-> {}]

\* the file outputLatestConversationToFile writes for the conversations passed
outputLatestConversationToFile(map, lastGitCommitTime) ==
    [exists |-> TRUE,
     messages |->
        UNION {{[content |-> map[id].messages[n].content,
                 role |-> map[id].messages[n].role,
                 timestamp |-> toLocalString(map[id].messages[n].timestamp),
                 conversationId |-> id] :
                    n \in {m \in 1..Len(map[id].messages) :
                             map[id].messages[m].timestamp > lastGitCommitTime}} :
               id \in DOMAIN map}]

\* a triggerGitBasedCalculation that lets the failure of the calculation reach
\* its caller
triggerGitBasedCalculationThrows_Escalated(gitOk) == ~gitOk

\* triggerGitBasedCalculation throws to saveConversation: never, its catch
\* block logs the failure of the calculation
triggerGitBasedCalculationThrows(gitOk) == FALSE

----------------------------------------------------------------------------
(* ChatConversationMonitor.filterMessageContent *)

\* a single backtick, and three backticks in a row
Tick == "<backtick>"
Fence == "<3 backticks>"
CodeBlockFiltered == "[CODE_BLOCK_FILTERED]"
InlineCodeFiltered == "[INLINE_CODE_FILTERED]"

\* \w+: a token that is a word of letters and digits
IsWord(token) ==
    token \notin {" ", Tick, Fence, CodeBlockFiltered, InlineCodeFiltered}

\* the number of characters of a token
TokenLength(token) ==
    CASE token = Fence -> 3
      [] token \in {"hi", "ok", "go", "py"} -> 2
      [] token = "use" -> 3
      [] token \in {"then", "tool"} -> 4
      [] token = CodeBlockFiltered -> 21
      [] token = InlineCodeFiltered -> 22
      [] OTHER -> 1

\* content.length
RECURSIVE StringLength(_)
StringLength(content) ==
    IF Len(content) = 0 THEN 0
    ELSE TokenLength(Head(content)) + StringLength(Tail(content))

\* position of the first backtick triple at or after position from; 0 if none
NextFence(content, from) ==
    LET fences == {n \in from..Len(content) : content[n] = Fence}
    IN  IF fences = {} THEN 0 ELSE CHOOSE n \in fences : \A m \in fences : n <= m

\* a replacement whose match runs from the first backtick triple to the last
ReplaceCodeBlocks_Greedy(content) ==
    LET fences == {n \in 1..Len(content) : content[n] = Fence}
        first == CHOOSE n \in fences : \A m \in fences : n <= m
        last == CHOOSE n \in fences : \A m \in fences : m <= n
    IN  IF Cardinality(fences) < 2 THEN content
        ELSE SubSeq(content, 1, first - 1) \o <<CodeBlockFiltered>>
             \o SubSeq(content, last + 1, Len(content))

\* content.replace(/```[\s\S]*?```/g, '[CODE_BLOCK_FILTERED]')
RECURSIVE ReplaceCodeBlocks(_)
ReplaceCodeBlocks(content) ==
    IF Len(content) = 0 THEN <<>>
    ELSE IF Head(content) = Fence /\ NextFence(content, 2) # 0
    THEN <<CodeBlockFiltered>>
         \o ReplaceCodeBlocks(SubSeq(content, NextFence(content, 2) + 1,
                                     Len(content)))
    ELSE <<Head(content)>> \o ReplaceCodeBlocks(Tail(content))

\* a backtick triple that is left over is three backticks to the next pattern
RECURSIVE Backticks(_)
Backticks(content) ==
    IF Len(content) = 0 THEN <<>>
    ELSE (IF Head(content) = Fence THEN <<Tick, Tick, Tick>> ELSE <<Head(content)>>)
         \o Backticks(Tail(content))

\* position of the first backtick at or after position from; 0 if none
NextTick(content, from) ==
    LET ticks == {n \in from..Len(content) : content[n] = Tick}
    IN  IF ticks = {} THEN 0 ELSE CHOOSE n \in ticks : \A m \in ticks : n <= m

\* str.replace(/`[^`]+`/g, '[INLINE_CODE_FILTERED]'), str with single backticks
RECURSIVE ReplaceInlineCode(_)
ReplaceInlineCode(str) ==
    IF Len(str) = 0 THEN <<>>
    ELSE IF /\ Head(str) = Tick
            /\ Len(str) >= 3
            /\ str[2] # Tick
            /\ NextTick(str, 3) # 0
    THEN <<InlineCodeFiltered>>
         \o ReplaceInlineCode(SubSeq(str, NextTick(str, 3) + 1, Len(str)))
    ELSE <<Head(str)>> \o ReplaceInlineCode(Tail(str))

\* content.match(/```(\w+)?[\s\S]*?```/g): the first match, as the positions
\* of its two backtick triples; <<>> when nothing matches
FirstCodeBlock(content) ==
    LET open == NextFence(content, 1)
    IN  IF open # 0 /\ NextFence(content, open + 1) # 0
        THEN <<open, NextFence(content, open + 1)>>
        ELSE <<>>

\* matches[0].match(/```(\w+)/): the word that follows the opening backticks
\* of the match; None without one
codeLanguageOf(content) ==
    LET block == FirstCodeBlock(content)
    IN  IF block # <<>> /\ block[1] + 1 < block[2] /\ IsWord(content[block[1] + 1])
        THEN content[block[1] + 1]
        ELSE None

\* the metadata both branches of filterMessageContent compute from the content
metadataOf(content, isFiltered) ==
    [hasCodeBlocks |-> FirstCodeBlock(content) # <<>>,
     codeLanguage |-> codeLanguageOf(content),
     messageLength |-> StringLength(content),
     isFiltered |-> isFiltered]

\* a filter that redacts the messages of every role
filterMessageContent_AnyRole(content, role, config) ==
    IF ~config
    THEN [filteredContent |-> <<>>, metadata |-> metadataOf(content, FALSE)]
    ELSE [filteredContent |->
              <<ReplaceInlineCode(Backticks(ReplaceCodeBlocks(content)))>>,
          metadata |-> metadataOf(content, TRUE)]

\* a filter that detects the code blocks in the text it has redacted
filterMessageContent_MetadataOfFiltered(content, role, config) ==
    IF ~config \/ role # "assistant"
    THEN [filteredContent |-> <<>>, metadata |-> metadataOf(content, FALSE)]
    ELSE [filteredContent |->
              <<ReplaceInlineCode(Backticks(ReplaceCodeBlocks(content)))>>,
          metadata |->
              metadataOf(ReplaceInlineCode(Backticks(ReplaceCodeBlocks(content))),
                         TRUE)]

\* config is this.config.ignoreCodeOutput; filteredContent is <<>> when absent
\* and <<the filtered text>> when present
filterMessageContent(content, role, config) ==
    IF ~config \/ role # "assistant"
    THEN [filteredContent |-> <<>>, metadata |-> metadataOf(content, FALSE)]
    ELSE [filteredContent |->
              <<ReplaceInlineCode(Backticks(ReplaceCodeBlocks(content)))>>,
          metadata |-> metadataOf(content, TRUE)]

----------------------------------------------------------------------------
(* ChatConversationMonitor.parseConversationData *)

\* the guard of the message loop: the read returned a record whose type and
\* text are truthy, and the type maps to a role
BuildsMessage(f, failed) ==
    /\ f \notin failed
    /\ BubbleType(f) # 0
    /\ Len(BubbleText(f)) > 0
    /\ mapMessageTypeToRole(BubbleType(f)) # None

\* the title parseConversationData passes to createConversation; data.name,
\* data.title are the empty string when the record carries none
conversationTitle(r) ==
    IF DataComposerId(r) # None
    THEN IF composerData[r].name # <<>> THEN composerData[r].name
         ELSE <<"Composer ", DataComposerId(r)>>
    ELSE IF composerData[r].sessionId # None
    THEN IF composerData[r].title # <<>> THEN composerData[r].title
         ELSE <<"Session ", composerData[r].sessionId>>
    ELSE <<"Cursor Chat Conversation">>

createConversation(r, messages, now) ==
    [id |-> <<"conv", now, r>>,
     title |-> conversationTitle(r),
     createdAt |-> IF DataCreatedAt(r) # 0 THEN DataCreatedAt(r) ELSE now,
     updatedAt |-> now,
     messages |-> messages,
     metadata |-> [totalMessages |-> Len(messages),
                   userMessages |-> CountRole(messages, "user"),
                   assistantMessages |-> CountRole(messages, "assistant"),
                   totalTokensEstimated |-> SumTokens(messages),
                   composerId |-> DataComposerId(r),
                   filePath |-> r]]

\* a parseConversationData that builds messages from every listed bubble
newBubbleIdsOf_All(bubbleIds, processedSet) == bubbleIds

\* bubbleIds.filter(bid => !processedSet.has(bid))
newBubbleIdsOf(bubbleIds, processedSet) ==
    LET isNew(bid) == bid \notin processedSet
    IN  SelectSeq(bubbleIds, isNew)

\* the row reaches the message loop: it lists a new bubble and its workspace
\* resolves to the current one
Accepted(r, bubbleIds, tracker) ==
    /\ ~DecodeFails(r)
    /\ ~ParseThrows(r)
    /\ Len(newBubbleIdsOf(bubbleIds, tracker[extractComposerIdFromKey(r)])) > 0
    /\ getCurrentWorkspacePath # <<>>
    /\ LET workspacePath == extractWorkspacePathFromData(r)
       IN  /\ workspacePath # <<>>
           /\ isSameWorkspace(workspacePath, getCurrentWorkspacePath)

\* the messages built from the new bubbles whose reads are not in failed
messagesOf(r, bubbleIds, tracker, failed, now) ==
    LET composerId == extractComposerIdFromKey(r)
        builds(bid) == BuildsMessage(bid, failed)
        good == SelectSeq(newBubbleIdsOf(bubbleIds, tracker[composerId]), builds)
    IN  [n \in 1..Len(good) |->
            LET role == mapMessageTypeToRole(BubbleType(good[n]))
                text == BubbleText(good[n])
                filtered == filterMessageContent(text, role, ignoreCodeOutput)
            IN  [id |-> <<"msg", now, composerId, n>>,
                 bubbleId |-> good[n],
                 timestamp |-> now,
                 role |-> role,
                 content |-> text,
                 filteredContent |-> filtered.filteredContent,
                 metadata |-> filtered.metadata]]

\* a parseConversationData that marks the new bubbles before it looks at the
\* workspace
ReachesMarking_BeforeWorkspace(r, bubbleIds, tracker) ==
    /\ ~DecodeFails(r)
    /\ ~ParseThrows(r)
    /\ Len(newBubbleIdsOf(bubbleIds, tracker[extractComposerIdFromKey(r)])) > 0

\* parseConversationData reaches the marking of the new bubbles: none of the
\* returns before the message loop was taken
ReachesMarking(r, bubbleIds, tracker) == Accepted(r, bubbleIds, tracker)

\* a parseConversationData that marks nothing
trackerAfterParse_Unmarked(r, bubbleIds, tracker) == tracker

\* the tracker after parseConversationData marked the bubbles of an accepted row
trackerAfterParse(r, bubbleIds, tracker) ==
    [tracker EXCEPT ![extractComposerIdFromKey(r)] =
        @ \cup {bubbleIds[n] : n \in 1..Len(bubbleIds)}]

\* the bubbles whose record extractRemoteWorkspaceFromBubbles reads: the listed
\* bubbles in order, up to the first whose record references a remote URI that
\* gives a workspace (every bubble of the container references
\* composerData[r].remoteUri)
remoteBubbleReads(r, bubbleIds) ==
    IF extractRemoteWorkspaceFromBubbles(r) # <<>>
    THEN {bubbleIds[1]}
    ELSE {bubbleIds[n] : n \in 1..Len(bubbleIds)}

\* the bubbles whose record, key bubbleId:<composerId>:<bubbleId>, the call of
\* parseConversationData for row r reads with getBubbleData
bubbleReads(r, bubbleIds, tracker) ==
    LET newBubbleIds == newBubbleIdsOf(bubbleIds, tracker[extractComposerIdFromKey(r)])
    IN  IF \/ DecodeFails(r)
           \/ ParseThrows(r)
           \/ Len(newBubbleIds) = 0
           \/ getCurrentWorkspacePath = <<>>
        THEN {}
        ELSE (IF getCurrentWorkspaceInfo # "local"
              THEN remoteBubbleReads(r, bubbleIds) ELSE {})
             \cup (IF Accepted(r, bubbleIds, tracker)
                   THEN {newBubbleIds[n] : n \in 1..Len(newBubbleIds)} ELSE {})

\* a row loop that ends at the first row whose value does not decode
AfterCatch_Return(rows) == <<>>

\* the rows the loop goes on with after the catch block of its first row
AfterCatch(rows) == Tail(rows)

\* loadConversationsFromDatabase: the rows in key order, each through
\* parseConversationData; result: the tracker and the conversations pushed
RECURSIVE loadConversationsFromDatabase(_, _, _, _, _)
loadConversationsFromDatabase(rows, store, tracker, failed, now) ==
    IF Len(rows) = 0 THEN [tracker |-> tracker, conversations |-> <<>>]
    ELSE LET r == Head(rows)
             accepted == Accepted(r, store[r], tracker)
             messages == IF accepted
                         THEN messagesOf(r, store[r], tracker, failed, now)
                         ELSE <<>>
             rest == loadConversationsFromDatabase(
                         IF DecodeFails(r) THEN AfterCatch(rows) ELSE Tail(rows),
                         store,
                         IF ReachesMarking(r, store[r], tracker)
                         THEN trackerAfterParse(r, store[r], tracker)
                         ELSE tracker,
                         failed, now)
         IN  [tracker |-> rest.tracker,
              conversations |->
                  IF Len(messages) = 0 THEN rest.conversations
                  ELSE <<createConversation(r, messages, now)>>
                       \o rest.conversations]

----------------------------------------------------------------------------
(* State machine *)

StartTime == 6      \* wall clock when the model starts

\* new Date(): the wall clock moves one unit with every poll that starts
Now == StartTime + clock

Idle == [i \in Slots |-> "idle"]
NoQueue == [i \in Slots |-> <<>>]

HeaderCount == LET RECURSIVE Sum(_)
                   Sum(rows) == IF Len(rows) = 0 THEN 0
                                ELSE Len(headers[Head(rows)]) + Sum(Tail(rows))
               IN  Sum(Rows)

\* no saveConversation has read its destination file without having written it
NotRead == [i \in Slots |-> [state |-> "none", file |-> <<>>]]

\* the logger as activate() leaves it over an empty directory, in a repository
\* whose last commit was made as the model starts
NoGit ==
    /\ authorDate = StartTime
    /\ conversations = <<>>
    /\ latest = NoLatest
    /\ gitError = FALSE
    /\ existingContent = NotRead

\* no call of extractWorkspacePathFromData with reads of its own in flight
NoReads ==
    /\ requestContexts = [f \in Frags |-> <<"p", "1">>]
    /\ pendingReads = {}
    /\ contexts = <<>>
    /\ resolvedPath = [state |-> "idle", path |-> <<>>]

\* activate() has run to its end with the default configuration
Started ==
    /\ phase = "started"
    /\ toLoad = {}
    /\ autoSave = TRUE

Init ==
    /\ headers = [r \in RowSet |-> <<>>]
    /\ db \in BOOLEAN
    /\ timer = TRUE
    /\ isCheckingForChanges = FALSE
    /\ lastProcessedComposerIds = EmptyTracker
    /\ files = <<>>
    /\ pc = Idle
    /\ queue = NoQueue
    /\ clock = 0
    /\ restarted = FALSE
    /\ failedReads = {}
    /\ outcome = "none"
    /\ workspaceFolders = LocalFolder(<<"/", "p", "1">>)
    /\ ignoreCodeOutput = TRUE
    /\ composerData = DefaultComposerData
    /\ bubbleData = DefaultBubbleData
    /\ NoGit
    /\ NoReads
    /\ Started

\* the external application appends a bubble header to a container
StoreAppend(r, f) ==
    /\ HeaderCount < MaxHeaders
    /\ headers' = [headers EXCEPT ![r] = Append(@, f)]
    /\ outcome' = "none"
    /\ failedReads' = {}
    /\ gitError' = FALSE
    /\ UNCHANGED <<db, timer, isCheckingForChanges, lastProcessedComposerIds,
                   files, pc, queue, clock, restarted, env, conversations,
                   latest, reads, startup,
                   existingContent>>

\* checkForChanges without its in-flight guard
AlreadyChecking_NoGuard == FALSE

\* the first guard of checkForChanges
AlreadyChecking == isCheckingForChanges

\* a checkForChanges that does not look at the connection
NoDatabase_Ignored == FALSE

\* the second guard of checkForChanges: initializeDatabase found no store file
\* and left the connection unset
NoDatabase == ~db

\* the invocation slot a call of checkForChanges runs in
FreeSlot == CHOOSE i \in Slots : pc[i] = "idle" /\ \A j \in 1..(i - 1) : pc[j] # "idle"

\* checkForChanges up to its first await; trigger is "periodic" or "manual"
checkForChanges(trigger) ==
    /\ trigger = "periodic" => timer
    /\ IF AlreadyChecking
       THEN /\ outcome' = "dropped"
            /\ UNCHANGED <<isCheckingForChanges, pc, clock>>
       ELSE IF NoDatabase
       THEN /\ outcome' = "nodb"
            /\ UNCHANGED <<isCheckingForChanges, pc, clock>>
       ELSE /\ outcome' = "none"
            /\ clock < MaxPolls
            /\ \E i \in Slots : pc[i] = "idle"
            /\ isCheckingForChanges' = TRUE
            /\ pc' = [pc EXCEPT ![FreeSlot] = "load"]
            /\ clock' = clock + 1
    /\ failedReads' = {}
    /\ gitError' = FALSE
    /\ UNCHANGED <<headers, db, timer, lastProcessedComposerIds, files, queue,
                   restarted, env, conversations, latest, reads, startup,
                   existingContent>>

\* the new bubbles of the rows that reach the message loop, with their composer
NewBubbles ==
    UNION {{<<extractComposerIdFromKey(r), headers[r][n]>> :
               n \in {m \in 1..Len(headers[r]) :
                        headers[r][m] \notin
                            lastProcessedComposerIds[extractComposerIdFromKey(r)]}} :
           r \in {x \in RowSet : Accepted(x, headers[x], lastProcessedComposerIds)}}

\* a completion handler that leaves the in-flight flag as it is
Finally_KeepFlag(i) ==
    /\ UNCHANGED isCheckingForChanges
    /\ pc' = [pc EXCEPT ![i] = "idle"]

\* the finally block of checkForChanges
Finally(i) ==
    /\ isCheckingForChanges' = FALSE
    /\ pc' = [pc EXCEPT ![i] = "idle"]

\* the callback of the candidate query and the parsing of its rows: err is the
\* query's error, failed the bubbles whose point read fails during this poll
LoadConversations(i, err, failed) ==
    /\ pc[i] = "load"
    /\ LET loaded == IF err \/ ~db
                     THEN [tracker |-> lastProcessedComposerIds,
                           conversations |-> <<>>]
                     ELSE loadConversationsFromDatabase(Rows, headers,
                              lastProcessedComposerIds, failed, Now)
       IN  /\ lastProcessedComposerIds' = loaded.tracker
           /\ failedReads' = IF err \/ ~db THEN {}
                             ELSE {b \in NewBubbles : b[2] \in failed}
           /\ IF Len(loaded.conversations) = 0
              THEN /\ Finally(i)
                   /\ queue' = [queue EXCEPT ![i] = <<>>]
              ELSE /\ pc' = [pc EXCEPT ![i] = "save"]
                   /\ queue' = [queue EXCEPT ![i] = loaded.conversations]
                   /\ UNCHANGED isCheckingForChanges
    /\ outcome' = "none"
    /\ gitError' = FALSE
    /\ UNCHANGED <<headers, db, timer, files, clock, restarted, env,
                   conversations, latest, reads, startup,
                   existingContent>>

\* one turn of the save loop of checkForChanges: addConversation and, with
\* autoSave, saveConversation of the next conversation; writeOk is whether the
\* file write succeeds, gitOk whether the git calculation that follows it does
SaveNext(i, writeOk, gitOk) ==
    /\ pc[i] = "save"
    /\ Len(queue[i]) > 0
    /\ LET conversation == Head(queue[i])
           added == addConversation(conversations, conversation)
       IN  /\ conversations' = added
           /\ IF ~autoSave
              THEN /\ queue' = [queue EXCEPT ![i] = Tail(@)]
                   /\ outcome' = "unsaved"
                   /\ gitError' = FALSE
                   /\ UNCHANGED <<files, latest>>
                   /\ IF Len(queue[i]) = 1
                      THEN Finally(i)
                      ELSE UNCHANGED <<isCheckingForChanges, pc>>
              ELSE IF SaveThrows(conversation) \/ ~writeOk
              THEN /\ Finally(i)
                   /\ queue' = [queue EXCEPT ![i] = <<>>]
                   /\ outcome' = "failed"
                   /\ gitError' = FALSE
                   /\ UNCHANGED <<files, latest>>
              ELSE /\ files' = saveConversation(files, conversation, Now)
                   /\ latest' = IF gitOk
                                THEN outputLatestConversationToFile(added,
                                         updateLastGitCommitTime)
                                ELSE latest
                   /\ gitError' = ~gitOk
                   /\ IF triggerGitBasedCalculationThrows(gitOk)
                      THEN /\ Finally(i)
                           /\ queue' = [queue EXCEPT ![i] = <<>>]
                           /\ outcome' = "failed"
                      ELSE /\ queue' = [queue EXCEPT ![i] = Tail(@)]
                           /\ outcome' = IF FileName(conversation) \in DOMAIN files
                                         THEN "merged" ELSE "created"
                           /\ IF Len(queue[i]) = 1
                              THEN Finally(i)
                              ELSE UNCHANGED <<isCheckingForChanges, pc>>
    /\ failedReads' = {}
    /\ UNCHANGED <<headers, db, timer, lastProcessedComposerIds, clock, restarted,
                   env, reads, startup,
                   existingContent>>

\* the command chatlogger.calculateGitConversation
calculateGitConversation(gitOk) ==
    /\ latest' = IF gitOk
                 THEN outputLatestConversationToFile(conversations,
                          updateLastGitCommitTime)
                 ELSE latest
    /\ gitError' = ~gitOk
    /\ outcome' = "none"
    /\ failedReads' = {}
    /\ UNCHANGED <<headers, db, timer, isCheckingForChanges,
                   lastProcessedComposerIds, files, pc, queue, clock, restarted,
                   env, conversations, reads, startup,
                   existingContent>>

\* the extension host restarts: activate() builds a fresh monitor, reseeds it
\* with loadSavedConversations and starts it; dbExists is whether the store is there
Activate(dbExists) ==
    /\ restarted' = TRUE
    /\ lastProcessedComposerIds' =
           loadSavedConversations(EmptyTracker, files, DOMAIN files)
    /\ db' = dbExists
    /\ timer' = TRUE
    /\ isCheckingForChanges' = FALSE
    /\ pc' = Idle
    /\ queue' = NoQueue
    /\ failedReads' = {}
    /\ outcome' = "none"
    /\ conversations' = loadedConversations(files)
    /\ gitError' = FALSE
    /\ UNCHANGED <<headers, files, clock, env, latest, reads, startup,
                   existingContent>>

\* a clearHistory that also empties the monitor's tracker
trackerAfterClearHistory_Emptied(tracker) == EmptyTracker

\* the monitor's tracker after clearHistory, which only knows the logger
trackerAfterClearHistory(tracker) == tracker

\* ChatLogger.clearHistory: the .chatlogger directory is removed
clearHistory ==
    /\ files # <<>> \/ conversations # <<>> \/ latest.exists
    /\ files' = <<>>
    /\ latest' = NoLatest
    /\ conversations' = <<>>
    /\ lastProcessedComposerIds' =
           trackerAfterClearHistory(lastProcessedComposerIds)
    /\ outcome' = "none"
    /\ failedReads' = {}
    /\ gitError' = FALSE
    /\ UNCHANGED <<headers, db, timer, isCheckingForChanges, pc, queue, clock,
                   restarted, env, reads, startup,
                   existingContent>>

Next ==
    \/ \E r \in RowSet : \E f \in BubblesOf(r) : StoreAppend(r, f)
    \/ \E trigger \in {"periodic", "manual"} : checkForChanges(trigger)
    \/ \E i \in Slots :
           /\ pc[i] = "load"
           /\ \E failed \in SUBSET {b[2] : b \in NewBubbles}, err \in BOOLEAN :
                  LoadConversations(i, err, failed)
    \/ \E i \in Slots, writeOk \in BOOLEAN : SaveNext(i, writeOk, TRUE)
    \/ \E dbExists \in BOOLEAN : Activate(dbExists)
    \/ clearHistory

Spec == Init /\ [][Next]_vars

----------------------------------------------------------------------------
(* saveConversation called twice with the same conversation, over an existing
   file: the inputs are drawn from the conversations the extraction builds *)

MaxMessages == 2    \* bubbles of the existing and of the new conversation

BubbleLists == UNION {[1..k -> {"f1", "f2", "f3"}] : k \in 1..MaxMessages}

\* the conversation parseConversationData builds for r1 from new bubbles
ConversationOf(bubbleIds, now) ==
    createConversation("r1",
        messagesOf("r1", bubbleIds, EmptyTracker, {}, now), now)

InitSave ==
    \E existingIds \in BubbleLists, newIds \in BubbleLists :
        /\ workspaceFolders = LocalFolder(<<"/", "p", "1">>)
        /\ ignoreCodeOutput = TRUE
        /\ composerData = DefaultComposerData
        /\ bubbleData = DefaultBubbleData
        /\ files = saveConversation(<<>>, ConversationOf(existingIds, StartTime),
                                    StartTime)
        /\ queue = [i \in Slots |->
                      IF i = 1
                      THEN <<ConversationOf(newIds, StartTime + 1),
                             ConversationOf(newIds, StartTime + 1)>>
                      ELSE <<>>]
        /\ pc = [i \in Slots |-> IF i = 1 THEN "save" ELSE "idle"]
        /\ isCheckingForChanges = TRUE
        /\ clock = 1
        /\ headers = [r \in RowSet |-> <<>>]
        /\ db = TRUE
        /\ timer = TRUE
        /\ lastProcessedComposerIds = EmptyTracker
        /\ restarted = FALSE
        /\ failedReads = {}
        /\ outcome = "none"
        /\ authorDate = StartTime
        /\ conversations = loadedConversations(files)
        /\ latest = NoLatest
        /\ gitError = FALSE
        /\ existingContent = NotRead
        /\ NoReads
        /\ Started

NextSave == \E i \in Slots : SaveNext(i, TRUE, TRUE)

SpecSave == InitSave /\ [][NextSave]_vars

----------------------------------------------------------------------------
(* The extraction of one bubble whose record is drawn from bounded sets: its
   type, its text and the filtering policy *)

MaxTokens == 5      \* tokens of the drawn text

TextTokens == {"a", " ", Tick, Fence}

\* the token sequence is the text's own: words and whitespace runs are whole,
\* and a run of backticks is one or two single ones or whole triples
WellFormed(text) ==
    /\ \A n \in 1..(Len(text) - 1) :
           /\ ~(IsWord(text[n]) /\ IsWord(text[n + 1]))
           /\ ~(text[n] = " " /\ text[n + 1] = " ")
           /\ ~(text[n] = Tick /\ text[n + 1] = Fence)
           /\ ~(text[n] = Fence /\ text[n + 1] = Tick)
    /\ \A n \in 1..(Len(text) - 2) :
           ~(text[n] = Tick /\ text[n + 1] = Tick /\ text[n + 2] = Tick)

\* an inline span followed by a python fenced block; a block without a tag
\* followed by a tagged one; a text of whitespace only
ExampleTexts ==
    {<<Tick, "a", Tick, " ", Fence, "py", " ", "a", Fence>>,
     <<Fence, " ", "a", Fence, " ", Fence, "py", " ", "a", Fence>>,
     <<" ">>}

Texts ==
    {text \in UNION {[1..k -> TextTokens] : k \in 0..MaxTokens} : WellFormed(text)}
        \cup ExampleTexts

InitContent ==
    \E type \in {0, 1, 2}, text \in Texts :
        /\ bubbleData = [DefaultBubbleData EXCEPT
                             !["f1"] = [type |-> type, text |-> text]]
        /\ ignoreCodeOutput \in BOOLEAN
        /\ composerData = DefaultComposerData
        /\ workspaceFolders = LocalFolder(<<"/", "p", "1">>)
        /\ headers = [r \in RowSet |-> IF r = "r1" THEN <<"f1">> ELSE <<>>]
        /\ db = TRUE
        /\ timer = TRUE
        /\ isCheckingForChanges = FALSE
        /\ lastProcessedComposerIds = EmptyTracker
        /\ files = <<>>
        /\ pc = Idle
        /\ queue = NoQueue
        /\ clock = 0
        /\ restarted = FALSE
        /\ failedReads = {}
        /\ outcome = "none"
        /\ NoGit
        /\ NoReads
        /\ Started

\* one poll after the other over the store as it is
NextPoll ==
    \/ checkForChanges("periodic")
    \/ \E i \in Slots :
           /\ pc[i] = "load"
           /\ \E failed \in SUBSET {b[2] : b \in NewBubbles} :
                  LoadConversations(i, FALSE, failed)
    \/ \E i \in Slots : SaveNext(i, TRUE, TRUE)

SpecContent == InitContent /\ [][NextPoll]_vars

----------------------------------------------------------------------------
(* The polls over one container whose project references are drawn from
   bounded sets, under each kind of workspace folder *)

Folders ==
    {NoFolder,
     LocalFolder(<<"/", "p", "1">>),
     LocalFolder(<<"/", "p", "2">>),
     RemoteFolder("ssh", <<"h", "1">>, <<"/", "p", "1">>),
     RemoteFolder("wsl", <<"d", "1">>, <<"/", "p", "1">>),
     RemoteFolder("container", <<"k", "1">>, <<"/", "p", "1">>)}

\* rootPath of the project layout: none, the names of the folders of
\* storage.json, and a name storage.json does not know
RootPaths == {<<>>, <<"p", "1">>, <<"p", "1", "0">>, <<"s">>, <<"p", "2">>, <<"z">>}

\* the file URI the bubbles reference: none, or a file under /p1 or /p2 on a
\* host, distro or container
BubbleUris ==
    {NoUri}
    \cup {RemoteUri(kind, id, path) :
              kind \in {"ssh"}, id \in {<<"h", "1">>, <<"h", "2">>},
              path \in {<<"p", "1", "/", "x">>, <<"p", "2", "/", "x">>}}
    \cup {RemoteUri(kind, id, path) :
              kind \in {"wsl"}, id \in {<<"d", "1">>, <<"d", "2">>},
              path \in {<<"p", "1", "/", "x">>}}
    \cup {RemoteUri(kind, id, path) :
              kind \in {"container"}, id \in {<<"k", "1">>, <<"k", "2">>},
              path \in {<<"p", "1", "/", "x">>}}

InitContext ==
    \E folder \in Folders, rootPath \in RootPaths, uri \in BubbleUris,
       composerId \in {"c1", None} :
        /\ workspaceFolders = folder
        /\ composerData = [DefaultComposerData EXCEPT
                               !["r1"].rootPath = rootPath,
                               !["r1"].remoteUri = uri,
                               !["r1"].composerId = composerId]
        /\ bubbleData = DefaultBubbleData
        /\ ignoreCodeOutput = TRUE
        /\ headers = [r \in RowSet |-> IF r = "r1" THEN <<"f1">> ELSE <<>>]
        /\ db = TRUE
        /\ timer = TRUE
        /\ isCheckingForChanges = FALSE
        /\ lastProcessedComposerIds = EmptyTracker
        /\ files = <<>>
        /\ pc = Idle
        /\ queue = NoQueue
        /\ clock = 0
        /\ restarted = FALSE
        /\ failedReads = {}
        /\ outcome = "none"
        /\ NoGit
        /\ NoReads
        /\ Started

SpecContext == InitContext /\ [][NextPoll]_vars

----------------------------------------------------------------------------
(* The polls over two containers whose row values are drawn from bounded
   sets: what the value decodes to, and the identifiers and names it carries *)

InitRows ==
    \E json1 \in {"object", "null", "malformed"},
       json2 \in {"object", "null", "malformed"},
       composerId \in {"c1", None}, name \in {<<>>, <<"My chat">>},
       sessionId \in {"s1", None}, title \in {<<>>, <<"My session">>} :
        /\ composerData = [DefaultComposerData EXCEPT
                               !["r1"].json = json1,
                               !["r2"].json = json2,
                               !["r1"].composerId = composerId,
                               !["r1"].name = name,
                               !["r1"].sessionId = sessionId,
                               !["r1"].title = title]
        /\ bubbleData = DefaultBubbleData
        /\ workspaceFolders = LocalFolder(<<"/", "p", "1">>)
        /\ ignoreCodeOutput = TRUE
        /\ headers = [r \in RowSet |-> IF r = "r1" THEN <<"f1">> ELSE <<"f2">>]
        /\ db \in BOOLEAN
        /\ timer = TRUE
        /\ isCheckingForChanges = FALSE
        /\ lastProcessedComposerIds = EmptyTracker
        /\ files = <<>>
        /\ pc = Idle
        /\ queue = NoQueue
        /\ clock = 0
        /\ restarted = FALSE
        /\ failedReads = {}
        /\ outcome = "none"
        /\ NoGit
        /\ NoReads
        /\ Started

SpecRows == InitRows /\ [][NextPoll]_vars

----------------------------------------------------------------------------
(* The polls whose candidate query, point reads and file writes may fail,
   triggered by the timer and by the manual command; every store read and
   every file operation completes: its callback or continuation runs *)

NextFailing ==
    \/ \E trigger \in {"periodic", "manual"} : checkForChanges(trigger)
    \/ \E i \in Slots :
           /\ pc[i] = "load"
           /\ \E failed \in SUBSET {b[2] : b \in NewBubbles}, err \in BOOLEAN :
                  LoadConversations(i, err, failed)
    \/ \E i \in Slots, writeOk \in BOOLEAN : SaveNext(i, writeOk, TRUE)

\* the callback of the candidate query of invocation i runs. Every run of the
\* callback, with rows or with an error, is enabled exactly while pc[i] is
\* "load" and ends that: weak fairness of the run that reports an error is
\* weak fairness of the callback
LoadCompletes(i) == LoadConversations(i, TRUE, {})

\* the pending saveConversation of invocation i settles
SaveCompletes(i) == \E writeOk \in BOOLEAN : SaveNext(i, writeOk, TRUE)

OperationsComplete ==
    \A i \in Slots : WF_vars(LoadCompletes(i)) /\ WF_vars(SaveCompletes(i))

SpecLive == InitRows /\ [][NextFailing]_vars /\ OperationsComplete

----------------------------------------------------------------------------
(* The polls and the git calculation in a repository whose last commit is
   drawn from the times of the model: the writes and the calculation may fail,
   and the user may run the calculation and restart the extension host *)

AuthorDates == StartTime..(StartTime + MaxPolls)

InitGit ==
    \E date \in AuthorDates :
        /\ authorDate = date
        /\ conversations = <<>>
        /\ latest = NoLatest
        /\ gitError = FALSE
        /\ existingContent = NotRead
        /\ NoReads
        /\ Started
        /\ composerData = DefaultComposerData
        /\ bubbleData = DefaultBubbleData
        /\ workspaceFolders = LocalFolder(<<"/", "p", "1">>)
        /\ ignoreCodeOutput = TRUE
        /\ headers = [r \in RowSet |-> IF r = "r1" THEN <<"f1">> ELSE <<"f2">>]
        /\ db = TRUE
        /\ timer = TRUE
        /\ isCheckingForChanges = FALSE
        /\ lastProcessedComposerIds = EmptyTracker
        /\ files = <<>>
        /\ pc = Idle
        /\ queue = NoQueue
        /\ clock = 0
        /\ restarted = FALSE
        /\ failedReads = {}
        /\ outcome = "none"

NextGit ==
    \/ \E trigger \in {"periodic", "manual"} : checkForChanges(trigger)
    \/ \E i \in Slots :
           /\ pc[i] = "load"
           /\ \E failed \in SUBSET {b[2] : b \in NewBubbles} :
                  LoadConversations(i, FALSE, failed)
    \/ \E i \in Slots, writeOk \in BOOLEAN, gitOk \in BOOLEAN :
           SaveNext(i, writeOk, gitOk)
    \/ \E gitOk \in BOOLEAN : calculateGitConversation(gitOk)
    \/ Activate(TRUE)

SpecGit == InitGit /\ [][NextGit]_vars

----------------------------------------------------------------------------
(* extractWorkspacePathFromData of one container of a local workspace whose
   bubbles carry project layouts drawn from bounded sets: the point reads of
   getAllMessageRequestContexts are dispatched together and their callbacks
   run in any order *)

\* getAllMessageRequestContexts dispatches one read per bubble id
DispatchReads ==
    /\ resolvedPath.state = "idle"
    /\ Len(headers["r1"]) > 0
    /\ pendingReads' = {headers["r1"][n] : n \in 1..Len(headers["r1"])}
    /\ contexts' = <<>>
    /\ resolvedPath' = [state |-> "reading", path |-> <<>>]
    /\ UNCHANGED <<headers, db, timer, isCheckingForChanges,
                   lastProcessedComposerIds, files, pc, queue, clock, restarted,
                   failedReads, outcome, env, conversations, latest, gitError,
                   startup,
                   existingContent>>

\* the callback of the read of bubble f: ok is whether the read returned a row
\* that parses; the callback of the last read resolves the promise, and
\* extractWorkspacePathFromData goes through the records pushed
ReadCompletes(f, ok) ==
    /\ f \in pendingReads
    /\ LET pushed == IF ok THEN Append(contexts, requestContexts[f])
                     ELSE contexts
       IN  /\ contexts' = pushed
           /\ pendingReads' = pendingReads \ {f}
           /\ resolvedPath' =
                  IF pendingReads = {f}
                  THEN [state |-> "done", path |-> resolveProjectLayouts(pushed)]
                  ELSE resolvedPath
    /\ UNCHANGED <<headers, db, timer, isCheckingForChanges,
                   lastProcessedComposerIds, files, pc, queue, clock, restarted,
                   failedReads, outcome, env, conversations, latest, gitError,
                   startup,
                   existingContent>>

InitResolve ==
    \E rootPath1 \in RootPaths, rootPath2 \in RootPaths :
        /\ requestContexts = [f \in Frags |->
                                  CASE f = "f1" -> rootPath1
                                    [] f = "f2" -> rootPath2
                                    [] OTHER -> <<>>]
        /\ pendingReads = {}
        /\ contexts = <<>>
        /\ resolvedPath = [state |-> "idle", path |-> <<>>]
        /\ Started
        /\ NoGit
        /\ composerData = DefaultComposerData
        /\ bubbleData = DefaultBubbleData
        /\ workspaceFolders = LocalFolder(<<"/", "p", "1">>)
        /\ ignoreCodeOutput = TRUE
        /\ headers = [r \in RowSet |-> IF r = "r1" THEN <<"f1", "f2">> ELSE <<>>]
        /\ db = TRUE
        /\ timer = TRUE
        /\ isCheckingForChanges = FALSE
        /\ lastProcessedComposerIds = EmptyTracker
        /\ files = <<>>
        /\ pc = Idle
        /\ queue = NoQueue
        /\ clock = 0
        /\ restarted = FALSE
        /\ failedReads = {}
        /\ outcome = "none"

NextResolve ==
    \/ DispatchReads
    \/ \E f \in Frags, ok \in BOOLEAN : ReadCompletes(f, ok)

SpecResolve == InitResolve /\ [][NextResolve]_vars

----------------------------------------------------------------------------
(* The polls over one growing container whose bubbles reference a file drawn
   from a bounded set, under each kind of workspace folder *)

InitRemote ==
    \E folder \in Folders, uri \in BubbleUris :
        /\ workspaceFolders = folder
        /\ composerData = [DefaultComposerData EXCEPT !["r1"].remoteUri = uri]
        /\ bubbleData = DefaultBubbleData
        /\ ignoreCodeOutput = TRUE
        /\ headers = [r \in RowSet |-> IF r = "r1" THEN <<"f1">> ELSE <<>>]
        /\ db = TRUE
        /\ timer = TRUE
        /\ isCheckingForChanges = FALSE
        /\ lastProcessedComposerIds = EmptyTracker
        /\ files = <<>>
        /\ pc = Idle
        /\ queue = NoQueue
        /\ clock = 0
        /\ restarted = FALSE
        /\ failedReads = {}
        /\ outcome = "none"
        /\ NoGit
        /\ NoReads
        /\ Started

NextRemote ==
    \/ \E f \in {"f2", "f3"} : StoreAppend("r1", f)
    \/ NextPoll

SpecRemote == InitRemote /\ [][NextRemote]_vars

----------------------------------------------------------------------------
(* The polls over one growing container whose project layout is written to
   the store at any time, under a local workspace folder *)

\* the external application writes the project layout of the container
StoreLayout(r, rootPath) ==
    /\ composerData[r].rootPath # rootPath
    /\ composerData' = [composerData EXCEPT ![r].rootPath = rootPath]
    /\ outcome' = "none"
    /\ failedReads' = {}
    /\ gitError' = FALSE
    /\ UNCHANGED <<headers, db, timer, isCheckingForChanges,
                   lastProcessedComposerIds, files, pc, queue, clock, restarted,
                   workspaceFolders, ignoreCodeOutput, autoSave, bubbleData,
                   requestContexts, authorDate, conversations, latest, reads,
                   startup,
                   existingContent>>

InitLayout ==
    \E rootPath \in RootPaths :
        /\ composerData = [DefaultComposerData EXCEPT !["r1"].rootPath = rootPath]
        /\ headers = [r \in RowSet |-> IF r = "r1" THEN <<"f1">> ELSE <<>>]
        /\ workspaceFolders = LocalFolder(<<"/", "p", "1">>)
        /\ bubbleData = DefaultBubbleData
        /\ ignoreCodeOutput = TRUE
        /\ db = TRUE
        /\ timer = TRUE
        /\ isCheckingForChanges = FALSE
        /\ lastProcessedComposerIds = EmptyTracker
        /\ files = <<>>
        /\ pc = Idle
        /\ queue = NoQueue
        /\ clock = 0
        /\ restarted = FALSE
        /\ failedReads = {}
        /\ outcome = "none"
        /\ NoGit
        /\ NoReads
        /\ Started

NextLayout ==
    \/ \E f \in {"f2", "f7"} : StoreAppend("r1", f)
    \/ \E rootPath \in RootPaths : StoreLayout("r1", rootPath)
    \/ NextPoll

SpecLayout == InitLayout /\ [][NextLayout]_vars

----------------------------------------------------------------------------
(* The polls with saveConversation in two steps, the read of the destination
   file and its overwrite, so that other steps can come between them *)

\* the directory in which the destination file is as the invocation read it
AsRead(dir, fileName, content) ==
    IF content.state = "found"
    THEN (fileName :> content.file[1]) @@ dir
    ELSE [fn \in DOMAIN dir \ {fileName} |-> dir[fn]]

\* a turn of the save loop up to the end of saveConversation's read of the
\* destination file (stat and readFile); without autoSave the whole turn
SaveReads(i) ==
    /\ pc[i] = "save"
    /\ Len(queue[i]) > 0
    /\ existingContent[i].state = "none"
    /\ LET conversation == Head(queue[i])
           fileName == FileName(conversation)
       IN  /\ conversations' = addConversation(conversations, conversation)
           /\ IF ~autoSave
              THEN /\ queue' = [queue EXCEPT ![i] = Tail(@)]
                   /\ outcome' = "unsaved"
                   /\ UNCHANGED existingContent
                   /\ IF Len(queue[i]) = 1
                      THEN Finally(i)
                      ELSE UNCHANGED <<isCheckingForChanges, pc>>
              ELSE IF SaveThrows(conversation)
              THEN /\ Finally(i)
                   /\ queue' = [queue EXCEPT ![i] = <<>>]
                   /\ outcome' = "failed"
                   /\ UNCHANGED existingContent
              ELSE /\ existingContent' =
                          [existingContent EXCEPT ![i] =
                              IF fileName \in DOMAIN files
                              THEN [state |-> "found", file |-> <<files[fileName]>>]
                              ELSE [state |-> "absent", file |-> <<>>]]
                   /\ outcome' = "none"
                   /\ UNCHANGED <<isCheckingForChanges, pc, queue>>
    /\ failedReads' = {}
    /\ gitError' = FALSE
    /\ UNCHANGED <<headers, db, timer, lastProcessedComposerIds, files, clock,
                   restarted, env, latest, reads, startup>>

\* the rest of the turn: the merge with what was read, writeFile, the git
\* calculation, and the next turn or the finally block
SaveWrites(i, writeOk, gitOk) ==
    /\ pc[i] = "save"
    /\ existingContent[i].state # "none"
    /\ LET conversation == Head(queue[i])
           fileName == FileName(conversation)
           written == saveConversation(AsRead(files, fileName, existingContent[i]),
                                       conversation, Now)
       IN  IF ~writeOk
           THEN /\ Finally(i)
                /\ queue' = [queue EXCEPT ![i] = <<>>]
                /\ outcome' = "failed"
                /\ gitError' = FALSE
                /\ UNCHANGED <<files, latest>>
           ELSE /\ files' = (fileName :> written[fileName]) @@ files
                /\ latest' = IF gitOk
                             THEN outputLatestConversationToFile(conversations,
                                      updateLastGitCommitTime)
                             ELSE latest
                /\ gitError' = ~gitOk
                /\ queue' = [queue EXCEPT ![i] = Tail(@)]
                /\ outcome' = IF existingContent[i].state = "found"
                              THEN "merged" ELSE "created"
                /\ IF Len(queue[i]) = 1
                   THEN Finally(i)
                   ELSE UNCHANGED <<isCheckingForChanges, pc>>
    /\ existingContent' = [existingContent EXCEPT ![i] = NotRead[i]]
    /\ failedReads' = {}
    /\ UNCHANGED <<headers, db, timer, lastProcessedComposerIds, clock, restarted,
                   env, conversations, reads, startup>>

NextSteps ==
    \/ \E r \in RowSet : \E f \in BubblesOf(r) : StoreAppend(r, f)
    \/ \E trigger \in {"periodic", "manual"} : checkForChanges(trigger)
    \/ \E i \in Slots : LoadConversations(i, FALSE, {})
    \/ \E i \in Slots : SaveReads(i)
    \/ \E i \in Slots, writeOk \in BOOLEAN : SaveWrites(i, writeOk, TRUE)

SpecSteps == Init /\ [][NextSteps]_vars

----------------------------------------------------------------------------
(* The life of the extension step by step, over a store of two containers
   of user and assistant bubbles: activate() with the file loop of loadSavedConversations,
   start(), the configuration listener, the commands and deactivate() *)

\* activate() up to the directory listing of loadSavedConversations: a fresh
\* logger and a fresh monitor in a new extension host
activate ==
    /\ phase # "loading"
    /\ phase' = "loading"
    /\ toLoad' = DOMAIN files
    /\ restarted' = TRUE
    /\ lastProcessedComposerIds' = EmptyTracker
    /\ conversations' = <<>>
    /\ db' = FALSE
    /\ timer' = FALSE
    /\ isCheckingForChanges' = FALSE
    /\ pc' = Idle
    /\ queue' = NoQueue
    /\ failedReads' = {}
    /\ outcome' = "none"
    /\ gitError' = FALSE
    /\ existingContent' = NotRead
    /\ UNCHANGED <<headers, files, clock, env, latest, reads>>

\* one turn of the file loop of loadSavedConversations
LoadSavedNext(fileName) ==
    /\ phase = "loading"
    /\ fileName \in toLoad
    /\ toLoad' = toLoad \ {fileName}
    /\ lastProcessedComposerIds' =
           loadSavedConversations(lastProcessedComposerIds, files, {fileName})
    /\ conversations' =
           loadedConversations([fn \in {fileName} |-> files[fn]]) @@ conversations
    /\ failedReads' = {}
    /\ outcome' = "none"
    /\ gitError' = FALSE
    /\ UNCHANGED <<headers, db, timer, isCheckingForChanges, files, pc, queue,
                   clock, restarted, env, latest, reads, phase,
                   existingContent>>

\* an activate() that calls start() without awaiting loadSavedConversations
LoadAwaited_NotAwaited == TRUE

\* await chatLogger.loadSavedConversations() has returned
LoadAwaited == toLoad = {}

\* chatConversationMonitor.start() and the registration of the commands and
\* of the configuration listener; dbExists is whether the store file is there
start(dbExists) ==
    /\ phase = "loading"
    /\ LoadAwaited
    /\ phase' = "started"
    /\ IF autoSave
       THEN /\ db' = dbExists
            /\ timer' = TRUE
       ELSE UNCHANGED <<db, timer>>
    /\ failedReads' = {}
    /\ outcome' = "none"
    /\ gitError' = FALSE
    /\ UNCHANGED <<headers, isCheckingForChanges, lastProcessedComposerIds,
                   files, pc, queue, clock, restarted, env, conversations,
                   latest, reads, toLoad,
                   existingContent>>

\* a dispose() that leaves the connection as it is
DisposedDb_KeptOpen == db

\* this.db after dispose()
DisposedDb == FALSE

\* deactivate(): dispose() of the monitor
dispose ==
    /\ phase = "started"
    /\ phase' = "disposed"
    /\ db' = DisposedDb
    /\ timer' = FALSE
    /\ failedReads' = {}
    /\ outcome' = "none"
    /\ gitError' = FALSE
    /\ UNCHANGED <<headers, isCheckingForChanges, lastProcessedComposerIds,
                   files, pc, queue, clock, restarted, env, conversations,
                   latest, reads, toLoad,
                   existingContent>>

\* the configuration listener: updateConfiguration() after the user set
\* chatlogger.autoSave.enabled; the other settings are reloaded as they were
updateConfiguration(enabled) ==
    /\ phase = "started"
    /\ autoSave' = enabled
    /\ enabled # autoSave
    /\ failedReads' = {}
    /\ outcome' = "none"
    /\ gitError' = FALSE
    /\ UNCHANGED <<headers, db, timer, isCheckingForChanges,
                   lastProcessedComposerIds, files, pc, queue, clock, restarted,
                   workspaceFolders, ignoreCodeOutput, composerData, bubbleData,
                   requestContexts, authorDate, conversations, latest, reads,
                   startup,
                   existingContent>>

\* the state in which activate() starts over an empty directory
InitLifecycle ==
    /\ headers = [r \in RowSet |-> <<>>]
    /\ db = FALSE
    /\ timer = FALSE
    /\ isCheckingForChanges = FALSE
    /\ lastProcessedComposerIds = EmptyTracker
    /\ files = <<>>
    /\ pc = Idle
    /\ queue = NoQueue
    /\ clock = 0
    /\ restarted = FALSE
    /\ failedReads = {}
    /\ outcome = "none"
    /\ workspaceFolders = LocalFolder(<<"/", "p", "1">>)
    /\ ignoreCodeOutput = TRUE
    /\ autoSave = TRUE
    /\ composerData = DefaultComposerData
    /\ bubbleData = DefaultBubbleData
    /\ NoGit
    /\ NoReads
    /\ phase = "loading"
    /\ toLoad = {}

\* the bubbles the external application appends
LifecycleBubbles == {<<"r1", "f1">>, <<"r1", "f2">>, <<"r2", "f1">>}

NextLifecycle ==
    \/ \E b \in LifecycleBubbles : StoreAppend(b[1], b[2])
    \/ checkForChanges("periodic")
    \/ phase # "loading" /\ checkForChanges("manual")
    \/ \E i \in Slots : LoadConversations(i, FALSE, {})
    \/ \E i \in Slots : SaveNext(i, TRUE, TRUE)
    \/ activate
    \/ \E fileName \in toLoad : LoadSavedNext(fileName)
    \/ \E dbExists \in BOOLEAN : start(dbExists)
    \/ dispose
    \/ \E enabled \in BOOLEAN : updateConfiguration(enabled)
    \/ phase # "loading" /\ clearHistory

SpecLifecycle == InitLifecycle /\ [][NextLifecycle]_vars

----------------------------------------------------------------------------
(* Properties *)

InFlight == {i \in Slots : pc[i] # "idle"}

\* the conversations extracted and not yet saved
Pending == UNION {{queue[i][n] : n \in 1..Len(queue[i])} : i \in Slots}

\* the bubble ids of a message list, in order
BubbleSeq(messages) == [n \in 1..Len(messages) |-> messages[n].bubbleId]

\* C1: at most one poll cycle is in flight: while a poll is in progress no
\* trigger starts another one, and a trigger dropped for that reason reads
\* nothing from the store and writes nothing.
C1_AtMostOnePollInFlight ==
    [][/\ Cardinality(InFlight') <= 1
       /\ InFlight # {} => InFlight' \subseteq InFlight
       /\ outcome' = "dropped" =>
              /\ InFlight # {}
              /\ UNCHANGED <<pc, queue, files, lastProcessedComposerIds, clock>>]_vars

\* a trigger was dropped while a poll was waiting to save its conversations
C1_Witness ==
    /\ outcome = "dropped"
    /\ \E i \in Slots : pc[i] = "save"

\* C2: no persisted conversation holds two messages with the same key
\* (bubble id, else message id), the first persist of a container included.
C2_NoDuplicateKeys ==
    \A fileName \in DOMAIN files :
        \A m, n \in 1..Len(files[fileName].messages) :
            m # n => MessageKey(files[fileName].messages[m])
                     # MessageKey(files[fileName].messages[n])

\* C3: after a restart has reseeded the tracker from the persisted
\* conversations, a poll emits for a container no fragment that its persisted
\* conversation already holds (persisted f1, f2 and listed f1, f2, f3: only f3).
C3_RestartSafety ==
    restarted =>
        \A conversation \in Pending : \A fileName \in DOMAIN files :
            files[fileName].metadata.composerId = conversation.metadata.composerId
            => BubbleIdsOf(conversation.messages)
                   \cap BubbleIdsOf(files[fileName].messages) = {}

\* restarted with f1, f2 persisted; the store lists f1, f2, f3; the poll emitted f3
C3_Witness ==
    /\ restarted
    /\ headers["r1"] = <<"f1", "f2", "f3">>
    /\ \E fileName \in DOMAIN files :
           /\ files[fileName].metadata.composerId = "c1"
           /\ BubbleSeq(files[fileName].messages) = <<"f1", "f2">>
    /\ \E conversation \in Pending :
           /\ conversation.metadata.composerId = "c1"
           /\ BubbleSeq(conversation.messages) = <<"f3">>

\* the messages as they are written: timestamps as locale strings
Written(messages) ==
    [n \in 1..Len(messages) |->
        [messages[n] EXCEPT !.timestamp = toLocalString(@)]]

\* the new messages whose key no existing and no earlier new message has
KeptNew(existing, new) ==
    LET keysBefore(n) == {MessageKey(existing[m]) : m \in 1..Len(existing)}
                         \cup {MessageKey(new[m]) : m \in 1..(n - 1)}
        keep == {n \in 1..Len(new) : MessageKey(new[n]) \notin keysBefore(n)}
        rank(n) == Cardinality({m \in keep : m <= n})
    IN  [k \in 1..Cardinality(keep) |-> new[CHOOSE n \in keep : rank(n) = k]]

\* C4: a merge writes the existing messages, all of them and in their order,
\* followed by the new messages whose key does not occur earlier.
C4_MergeKeepsExisting ==
    [][\A i \in Slots :
          (pc[i] = "save" /\ outcome' = "merged") =>
              LET conversation == Head(queue[i])
                  fileName == FileName(conversation)
              IN  files'[fileName].messages =
                      files[fileName].messages
                      \o Written(KeptNew(files[fileName].messages,
                                         conversation.messages))]_vars

\* C5: merging the same new conversation into an existing file a second time
\* leaves the message list and the derived statistics as the first merge wrote them.
C5_IdempotentMerge ==
    [][\A i \in Slots :
          (pc[i] = "save" /\ Len(queue[i]) = 1 /\ outcome = "merged"
             /\ outcome' = "merged") =>
              LET fileName == FileName(Head(queue[i]))
              IN  /\ files'[fileName].messages = files[fileName].messages
                  /\ files'[fileName].metadata = files[fileName].metadata]_vars

\* both merges are done and the file holds an existing and a new message
C5_Witness ==
    /\ outcome = "merged"
    /\ InFlight = {}
    /\ \E fileName \in DOMAIN files :
           {"f1", "f2"} \subseteq BubbleIdsOf(files[fileName].messages)

\* C6: all persists of a container go to one destination file.
C6_StableDestination ==
    \A a, b \in DOMAIN files :
        files[a].metadata.composerId = files[b].metadata.composerId => a = b

\* C7: when the write of a conversation fails, its fragments are not treated
\* as emitted: they stay out of the seen-set, so the next poll extracts them again.
C7_FailedPersistRetried ==
    [][\A i \in Slots :
          (pc[i] = "save" /\ outcome' = "failed") =>
              LET conversation == Head(queue[i])
                  composerId == extractComposerIdFromKey(conversation.metadata.filePath)
              IN  BubbleIdsOf(conversation.messages)
                      \cap lastProcessedComposerIds'[composerId] = {}]_vars

\* C8: a fragment with a recognized type and text whose point read failed is
\* not lost: it stays unseen, so that a later poll reads it again.
C8_FailedReadStaysUnseen ==
    \A b \in failedReads :
        (BubbleType(b[2]) \in {0, 1, 2} /\ Len(BubbleText(b[2])) > 0)
            => b[2] \notin lastProcessedComposerIds[b[1]]

Persisted == {files[fileName] : fileName \in DOMAIN files}

\* C10: no message comes from a fragment whose type is outside {0, 1, 2}, and
\* no conversation is built or written without a message: a container whose new
\* fragments all have an unrecognized type yields none.
C10_RoleRejection ==
    \A conversation \in Pending \cup Persisted :
        /\ Len(conversation.messages) > 0
        /\ \A n \in 1..Len(conversation.messages) :
               /\ BubbleType(conversation.messages[n].bubbleId) \in {0, 1, 2}
               /\ conversation.messages[n].role \in {"user", "assistant", "system"}

\* a poll went over a container that lists only the type 7 fragment and ended
\* without a conversation and without a file
C10_Witness ==
    /\ headers["r1"] = <<"f7">>
    /\ headers["r2"] = <<>>
    /\ "f7" \in lastProcessedComposerIds["c1"]
    /\ InFlight = {}
    /\ files = <<>>

\* the bubbles an invocation's load step has just marked as processed and
\* whose record it has read
ReadNow(i) ==
    {b \in {<<c, f>> : c \in Composers, f \in Frags} :
        /\ pc[i] = "load"
        /\ b[2] \in lastProcessedComposerIds'[b[1]] \ lastProcessedComposerIds[b[1]]
        /\ b \notin failedReads'}

\* the messages of the conversations the invocation holds after the step
EmittedNow(i) ==
    UNION {{queue'[i][n].messages[m] : m \in 1..Len(queue'[i][n].messages)} :
           n \in 1..Len(queue'[i])}

\* C11: a new fragment of an accepted container that has text and type 0, 1
\* or 2 is emitted as a message with role system, user or assistant.
C11_RoleMapping ==
    [][\A i \in Slots : \A b \in ReadNow(i) :
          (Len(BubbleText(b[2])) > 0 /\ BubbleType(b[2]) \in {0, 1, 2}) =>
              \E msg \in EmittedNow(i) :
                  /\ msg.bubbleId = b[2]
                  /\ msg.role = CASE BubbleType(b[2]) = 0 -> "system"
                                   [] BubbleType(b[2]) = 1 -> "user"
                                   [] BubbleType(b[2]) = 2 -> "assistant"]_vars

\* the context string of the workspace folder: <id>:<path> for a remote
\* folder, the path for a local one; paths without their leading slash
ContextOf(folder) ==
    WorkspaceString([kind |-> IF folder.kind = "local" THEN "file" ELSE folder.kind,
                     id |-> folder.id,
                     path |-> Tail(folder.path)])

\* the resolved context matches the active one: equal for a plain-local
\* folder, the active one a prefix of it for a remote folder
ContextMatches(resolved, folder) ==
    IF folder.kind = "local"
    THEN resolved = ContextOf(folder) \/ resolved = folder.path
    ELSE startsWith(resolved, ContextOf(folder))

\* resolution fails for the row: no folder is open, no context is resolved, or
\* the resolved context does not match the active one
ResolutionFails(r) ==
    \/ workspaceFolders.kind = "none"
    \/ extractWorkspacePathFromData(r) = <<>>
    \/ ~ContextMatches(extractWorkspacePathFromData(r), workspaceFolders)

\* the conversations extracted or persisted for the row
ConversationsOf(r) ==
    {conversation \in Pending \cup Persisted : conversation.metadata.filePath = r}

\* C12: when no folder is open, or no context is resolved for a container, or
\* the resolved context does not match the active one, no conversation is
\* emitted for the container and nothing is written for it.
C12_SilentSkip ==
    \A r \in RowSet : ResolutionFails(r) => ConversationsOf(r) = {}

\* C13: under a plain-local folder a container is accepted only if its resolved
\* path is the active path: /p10 and /p1/s are rejected under /p1.
C13_LocalExactMatch ==
    \A r \in RowSet :
        (workspaceFolders.kind = "local" /\ ConversationsOf(r) # {}) =>
            <<"/">> \o extractWorkspacePathFromData(r) = workspaceFolders.path

\* the folder is remote and the bubbles of the row reference a file of a
\* remote of the folder's kind
RemoteCase(r) ==
    /\ workspaceFolders.kind \in {"ssh", "wsl", "container"}
    /\ composerData[r].remoteUri.kind = workspaceFolders.kind

\* the referenced file lies under the active project root
UnderRoot(r) ==
    startsWith(<<"/">> \o composerData[r].remoteUri.path,
               workspaceFolders.path \o <<"/">>)

\* C14: under a remote folder (host, WSL distro, dev container), a container
\* whose bubbles reference a file of that remote under the project root is
\* resolved to <id>:<path> and accepted, and a container resolved to another
\* host, distro or container id is skipped.
C14_RemotePrefixMatch ==
    [][\A r \in RowSet :
          RemoteCase(r) =>
              /\ (composerData[r].remoteUri.id = workspaceFolders.id /\ UnderRoot(r)) =>
                     /\ extractWorkspacePathFromData(r) =
                            composerData[r].remoteUri.id \o <<":">>
                                \o composerData[r].remoteUri.path
                     /\ \A i \in Slots :
                            (pc[i] = "load" /\ pc'[i] # "load") =>
                                \A n \in 1..Len(headers[r]) :
                                    headers[r][n] \in lastProcessedComposerIds'
                                        [extractComposerIdFromKey(r)]
              /\ composerData[r].remoteUri.id # workspaceFolders.id =>
                     ConversationsOf(r)' = {}]_vars

\* the messages of the conversations extracted or persisted
Messages ==
    UNION {{conversation.messages[n] : n \in 1..Len(conversation.messages)} :
           conversation \in Pending \cup Persisted}

C16_MetadataIndependent ==
    \A msg \in Messages :
        \A role \in {"user", "assistant", "system"}, config \in BOOLEAN :
            LET other == filterMessageContent(msg.content, role, config).metadata
            IN  /\ other.hasCodeBlocks = msg.metadata.hasCodeBlocks
                /\ other.codeLanguage = msg.metadata.codeLanguage
                /\ other.messageLength = msg.metadata.messageLength

\* a filtered message of a text with a tagged code block: its metadata reports
\* the block although the filtered text no longer holds it
C16_Witness ==
    \E msg \in Messages :
        /\ msg.metadata.isFiltered
        /\ msg.metadata.hasCodeBlocks
        /\ msg.metadata.codeLanguage = "a"
        /\ msg.metadata.messageLength > 6

\* the backtick triples of a text pair up in order: the positions of those
\* that open a fenced block, and the positions a fenced block covers after
\* its opening triple
FencesBefore(text, n) == Cardinality({m \in 1..(n - 1) : text[m] = Fence})
OpensBlock(text, n) ==
    /\ text[n] = Fence
    /\ FencesBefore(text, n) % 2 = 0
    /\ \E m \in (n + 1)..Len(text) : text[m] = Fence
InsideBlock(text, n) ==
    /\ FencesBefore(text, n) % 2 = 1
    /\ \E m \in n..Len(text) : text[m] = Fence

\* the text with every fenced block replaced by the placeholder
BlocksRedacted(text) ==
    LET keep == {n \in 1..Len(text) : ~InsideBlock(text, n)}
        nth(k) == CHOOSE n \in keep : Cardinality({m \in keep : m <= n}) = k
    IN  [k \in 1..Cardinality(keep) |->
            IF OpensBlock(text, nth(k)) THEN CodeBlockFiltered ELSE text[nth(k)]]

\* the inline spans of a text, left to right from position n: a backtick, one
\* token or more without a backtick, a backtick
RECURSIVE SpansFrom(_, _)
SpansFrom(text, n) ==
    IF n > Len(text) THEN {}
    ELSE LET closings == {q \in (n + 2)..Len(text) : text[q] = Tick}
             q == CHOOSE c \in closings : \A d \in closings : c <= d
         IN  IF text[n] = Tick /\ closings # {} /\ text[n + 1] # Tick
             THEN {<<n, q>>} \cup SpansFrom(text, q + 1)
             ELSE SpansFrom(text, n + 1)

\* the text with every inline span replaced by the placeholder
SpansRedacted(text) ==
    LET spans == SpansFrom(text, 1)
        keep == {n \in 1..Len(text) : ~\E sp \in spans : sp[1] < n /\ n <= sp[2]}
        nth(k) == CHOOSE n \in keep : Cardinality({m \in keep : m <= n}) = k
    IN  [k \in 1..Cardinality(keep) |->
            IF \E sp \in spans : sp[1] = nth(k)
            THEN InlineCodeFiltered ELSE text[nth(k)]]

\* the tag of the first fenced block: the word after its opening triple
FirstBlockTag(text) ==
    LET opens == {n \in 1..Len(text) : OpensBlock(text, n)}
        first == CHOOSE n \in opens : \A m \in opens : n <= m
    IN  IF opens # {} /\ IsWord(text[first + 1]) THEN text[first + 1] ELSE None

\* an inline span followed by a python fenced block
InlineThenPython == <<Tick, "a", Tick, " ", Fence, "py", " ", "a", Fence>>

\* C17: with filtering enabled and role assistant, every fenced block of the
\* text is replaced by [CODE_BLOCK_FILTERED] and then every remaining inline
\* span by [INLINE_CODE_FILTERED]; the language tag is the tag of the first
\* fenced block of the original text, absent when that block has none.
C17_Redaction ==
    \A msg \in {m \in Messages : m.filteredContent # <<>>} :
        /\ msg.filteredContent[1] =
               SpansRedacted(Backticks(BlocksRedacted(msg.content)))
        /\ msg.metadata.hasCodeBlocks =
               (\E n \in 1..Len(msg.content) : OpensBlock(msg.content, n))
        /\ msg.metadata.codeLanguage = FirstBlockTag(msg.content)
        /\ msg.content = InlineThenPython =>
               /\ msg.filteredContent[1] =
                      <<InlineCodeFiltered, " ", CodeBlockFiltered>>
               /\ msg.metadata.hasCodeBlocks
               /\ msg.metadata.codeLanguage = "py"

\* the message of the inline span followed by the python block is persisted
\* with both placeholders and the tag of the block
C17_Witness ==
    \E msg \in Messages :
        /\ files # <<>>
        /\ msg.content = InlineThenPython
        /\ msg.filteredContent = <<<<InlineCodeFiltered, " ", CodeBlockFiltered>>>>
        /\ msg.metadata.hasCodeBlocks
        /\ msg.metadata.codeLanguage = "py"

\* C18: the statistics of every persisted record agree with its own message
\* list: totalMessages is the number of messages, userMessages and
\* assistantMessages the numbers of messages with those roles, after a first
\* persist and after a merge alike.
C18_StatisticsConsistent ==
    \A record \in Persisted :
        LET withRole(role) == {n \in 1..Len(record.messages) :
                                  record.messages[n].role = role}
        IN  /\ record.metadata.totalMessages = Len(record.messages)
            /\ record.metadata.userMessages = Cardinality(withRole("user"))
            /\ record.metadata.assistantMessages = Cardinality(withRole("assistant"))
            /\ record.metadata.userMessages + record.metadata.assistantMessages
                   <= record.metadata.totalMessages

\* a merge has just written a record that holds messages of both roles, more
\* of them than the merged conversation brought
C18_Witness ==
    /\ outcome = "merged"
    /\ \E record \in Persisted :
           /\ record.metadata.totalMessages = 3
           /\ record.metadata.userMessages = 2
           /\ record.metadata.assistantMessages = 1
           /\ BubbleSeq(record.messages) = <<"f1", "f2", "f3">>

\* the whitespace-separated words of a text
WordCount(content) ==
    Cardinality({n \in 1..Len(content) :
                    /\ content[n] # " "
                    /\ (n = 1 \/ content[n - 1] = " ")})

\* the sum over the messages of ceil(1.3 x word count)
RECURSIVE TokenEstimate(_)
TokenEstimate(messages) ==
    IF Len(messages) = 0 THEN 0
    ELSE LET w == WordCount(Head(messages).content)
         IN  ((13 * w) \div 10 + (IF (13 * w) % 10 = 0 THEN 0 ELSE 1))
             + TokenEstimate(Tail(messages))

\* C19: the token estimate of a conversation is the sum over its messages of
\* ceil(1.3 x w), w the number of whitespace-separated words of the content;
\* a message without words contributes 0.
C19_TokenEstimate ==
    \A conversation \in Pending \cup Persisted :
        conversation.metadata.totalTokensEstimated
            = TokenEstimate(conversation.messages)

\* C20: persisting a conversation without a composer id fails with an error
\* that reaches the caller of saveConversation, and the call creates and
\* changes no conversation file.
C20_MissingComposerId ==
    [][\A i \in Slots :
          (/\ pc[i] = "save"
           /\ queue'[i] # queue[i]
           /\ Head(queue[i]).metadata.composerId = None) =>
              /\ outcome' = "failed"
              /\ files' = files
              /\ pc'[i] = "idle"]_vars

\* the save of the conversation of a container whose record has no composer
\* id has failed and nothing was written
C20_Witness ==
    /\ outcome = "failed"
    /\ composerData["r1"].composerId = None
    /\ "f1" \in lastProcessedComposerIds["c1"]
    /\ files = <<>>

----------------------------------------------------------------------------
(* Error handling and scheduling of a poll *)

\* C21: when persisting one conversation of a poll fails, the conversations
\* extracted after it in the same poll are still to be persisted in that poll:
\* the failed save step removes only the failing conversation from the poll's
\* remaining work.
C21_PollContinuesAfterFailedSave ==
    [][\A i \in Slots :
          (pc[i] = "save" /\ queue'[i] # queue[i] /\ outcome' = "failed")
              => /\ queue'[i] = Tail(queue[i])
                 /\ (Len(queue[i]) > 1 => pc'[i] = "save")]_vars

\* the bubbles whose point read failed in the poll that has just loaded
FailedNow == {b[2] : b \in failedReads}

\* the row is well formed and accepted, and the reads of the poll build a
\* message for it
Extractable(r, failed) ==
    /\ composerData[r].json = "object"
    /\ Accepted(r, headers[r], lastProcessedComposerIds)
    /\ Len(messagesOf(r, headers[r], lastProcessedComposerIds, failed, Now)) > 0

\* the conversations the rows of a poll are returned as
ReturnedFor(returned) ==
    {returned[n].metadata.filePath : n \in 1..Len(returned)}

\* C22: a decode failure of one row does not abort the rows after it: the
\* load step of a poll returns a conversation for every well-formed, accepted
\* row of the poll whose reads build a message, whatever its sibling rows
\* decode to.
C22_DecodeFailureIsolated ==
    [][\A i \in Slots :
          (pc[i] = "load" /\ pc'[i] # "load")
              => \A r \in RowSet :
                     Extractable(r, FailedNow')
                         => r \in ReturnedFor(queue'[i])]_vars

\* the first row is not JSON and the poll returned the second row's conversation
C22_Witness ==
    /\ DecodeFails("r1")
    /\ \E i \in Slots : pc[i] = "save" /\ ReturnedFor(queue[i]) = {"r2"}

\* C23: every poll that enters Polling returns to Idle: once the in-flight
\* flag is set it is eventually cleared, whether the extraction and the
\* persistence of the poll succeed or throw, provided every store read and
\* file operation completes.
C23_PollReturnsToIdle ==
    /\ isCheckingForChanges ~> ~isCheckingForChanges
    /\ \A i \in Slots : (pc[i] # "idle") ~> (pc[i] = "idle")

\* a poll whose persistence threw has ended and left the scheduler Idle
C23_Witness ==
    /\ outcome = "failed"
    /\ ~isCheckingForChanges
    /\ \A i \in Slots : pc[i] = "idle"

\* C27: an absent store is tolerated. While the monitor has no connection
\* (the store did not exist when it started) the scheduler is Idle, and no
\* step, tick and manual trigger included, starts a poll, queues a
\* conversation, writes a file, marks a fragment seen or fails.
C27_AbsentStoreTolerated ==
    [][(~db /\ ~db')
          => /\ ~isCheckingForChanges /\ ~isCheckingForChanges'
             /\ pc = Idle /\ pc' = Idle
             /\ queue' = NoQueue
             /\ files' = files \/ files' = <<>>
             /\ \/ lastProcessedComposerIds' = lastProcessedComposerIds
                \/ lastProcessedComposerIds' =
                       loadSavedConversations(EmptyTracker, files, DOMAIN files)
             /\ outcome' \in {"none", "nodb"}
             /\ failedReads' = {}]_vars

\* a trigger found no connection while the store lists a fragment
C27_Witness ==
    /\ ~db
    /\ outcome = "nodb"
    /\ headers["r1"] # <<>>
    /\ files = <<>>
    /\ pc = Idle

\* an invocation goes from idle to its candidate query in this step
PollStarts == \E i \in Slots : pc[i] = "idle" /\ pc'[i] = "load"

\* C24: no backlog of missed ticks. A trigger that arrives while a poll is in
\* flight is dropped and leaves nothing behind: the step changes neither the
\* invocations nor their queues, the flag, the tracker or the files. A poll
\* starts only in a step taken from Idle, that step starts one poll and does
\* nothing else, so no poll starts when the poll in flight progresses or
\* completes, and every poll started answers one trigger received while Idle.
C24_NoBacklog ==
    [][/\ (isCheckingForChanges /\ outcome' = "dropped")
              => UNCHANGED <<pc, queue, isCheckingForChanges, clock, files,
                             lastProcessedComposerIds, headers, db, timer>>
       /\ PollStarts
              => /\ ~isCheckingForChanges
                 /\ \A i \in Slots : pc[i] = "idle"
                 /\ Cardinality({i \in Slots : pc'[i] # "idle"}) = 1
                 /\ clock' = clock + 1
                 /\ UNCHANGED <<queue, files, lastProcessedComposerIds,
                                headers, db, timer>>]_vars

\* a trigger was dropped while a poll was saving its conversations
C24_Witness ==
    /\ outcome = "dropped"
    /\ isCheckingForChanges
    /\ \E i \in Slots : pc[i] = "save" /\ Len(queue[i]) > 0

----------------------------------------------------------------------------
(* The since-checkpoint output *)

\* C25: the since-checkpoint recomputation is fire-and-forget. When it fails
\* after the conversation file was written, the save step still ends as a
\* successful save: the file holds what saveConversation wrote, and the poll
\* goes on with the next conversation of its queue.
C25_GitFailureNotEscalated ==
    [][\A i \in Slots :
          (pc[i] = "save" /\ queue'[i] # queue[i] /\ gitError')
              => /\ outcome' \in {"created", "merged"}
                 /\ files' = saveConversation(files, Head(queue[i]), Now)
                 /\ queue'[i] = Tail(queue[i])
                 /\ pc'[i] = IF Len(queue[i]) > 1 THEN "save" ELSE "idle"]_vars

\* the calculation failed after the first file of a poll was written, and the
\* poll still has its second conversation to save
C25_Witness ==
    /\ gitError
    /\ outcome = "created"
    /\ DOMAIN files # {}
    /\ \E i \in Slots : pc[i] = "save" /\ Len(queue[i]) = 1

\* the entry of the output is a message of a persisted conversation
IsPersisted(out, dir) ==
    \E fileName \in DOMAIN dir : \E n \in 1..Len(dir[fileName].messages) :
        LET msg == dir[fileName].messages[n]
        IN  /\ out.content = msg.content
            /\ out.role = msg.role
            /\ out.timestamp = msg.timestamp

\* the persisted messages whose recorded time is strictly after the checkpoint
PersistedAfter(dir, checkpoint) ==
    UNION {{dir[fileName].messages[n] :
                n \in {m \in 1..Len(dir[fileName].messages) :
                         fromLocalString(dir[fileName].messages[m].timestamp)
                             > checkpoint}} :
           fileName \in DOMAIN dir}

\* C26: each time the since-checkpoint output is rewritten it holds exactly the
\* messages of the persisted conversations that are strictly after the
\* checkpoint: every entry is a message of a persisted conversation, no entry
\* is of a second that ended at or before the checkpoint, and every persisted
\* message recorded after the checkpoint has its entry.
C26_OutputOfPersistedOnly ==
    [][(latest' # latest /\ latest'.exists)
          => /\ \A out \in latest'.messages :
                    /\ IsPersisted(out, files')
                    /\ out.timestamp + MsPerSecond > authorDate
             /\ \A msg \in PersistedAfter(files', authorDate) :
                    \E out \in latest'.messages :
                        /\ out.content = msg.content
                        /\ out.role = msg.role
                        /\ out.timestamp = msg.timestamp]_vars

----------------------------------------------------------------------------
(* Completion order of the auxiliary reads *)

\* the records pushed, in another order
Reordered(records, perm) == [n \in 1..Len(records) |-> records[perm[n]]]

\* C29: the resolved project context does not depend on the order in which
\* the concurrently dispatched reads complete, and it is resolved only after
\* all of them completed: once extractWorkspacePathFromData has returned, no
\* read is pending and the path it returned is the one every other completion
\* order of the same reads resolves.
C29_CompletionOrderIrrelevant ==
    resolvedPath.state = "done"
        => /\ pendingReads = {}
           /\ \A perm \in Permutations(1..Len(contexts)) :
                  resolveProjectLayouts(Reordered(contexts, perm))
                      = resolvedPath.path

----------------------------------------------------------------------------
(* Order of the persisted messages *)

\* fragment a is listed before fragment b in the container's fragment list
ListedBefore(r, a, b) ==
    \E p, q \in 1..Len(headers[r]) :
        p < q /\ headers[r][p] = a /\ headers[r][q] = b

\* C28: the fragment lists only grow by appending, and the messages of every
\* persisted conversation are in the relative order of their fragments in the
\* container's list: a message that precedes another one of a different
\* fragment has its fragment listed before the other's.
C28_PersistedInListOrder ==
    \A fileName \in DOMAIN files :
        LET conversation == files[fileName]
            bubbleIds == BubbleSeq(conversation.messages)
        IN  \A m, n \in 1..Len(bubbleIds) :
                (m < n /\ bubbleIds[m] # bubbleIds[n])
                    => ListedBefore(conversation.metadata.filePath,
                                    bubbleIds[m], bubbleIds[n])

----------------------------------------------------------------------------
(* Title of an emitted conversation *)

\* the container is session-style: its record carries a session identifier
\* and no composer identifier
SessionStyle(r) == DataComposerId(r) = None /\ composerData[r].sessionId # None

\* the explicit display name of the container's record, if any
DisplayName(r) ==
    IF SessionStyle(r) THEN composerData[r].title ELSE composerData[r].name

\* the title the policy gives the container of row r
PolicyTitle(r) ==
    IF DisplayName(r) # <<>> THEN DisplayName(r)
    ELSE IF SessionStyle(r) THEN <<"Session ", composerData[r].sessionId>>
    ELSE <<"Composer ", extractComposerIdFromKey(r)>>

\* C30: the title of every conversation a poll emits is the explicit display
\* name of its container when the record carries one, otherwise "Composer "
\* followed by the container identifier, or "Session " followed by the session
\* identifier for a session-style container.
C30_TitlePolicy ==
    \A i \in Slots : \A n \in 1..Len(queue[i]) :
        queue[i][n].title = PolicyTitle(queue[i][n].metadata.filePath)

----------------------------------------------------------------------------
(* The deduplication tracker *)

\* the bubbles that enter the seen-set of composer c with the step
Entering(c) == lastProcessedComposerIds'[c] \ lastProcessedComposerIds[c]

\* the bubbles of the messages the load step of invocation i emits for composer c
EmittedFor(i, c) ==
    UNION {BubbleIdsOf(queue'[i][n].messages) :
           n \in {m \in 1..Len(queue'[i]) :
                    extractComposerIdFromKey(queue'[i][m].metadata.filePath) = c}}

\* the bubbles stored in the persisted conversations filed under composer c
StoredFor(c) ==
    UNION {BubbleIdsOf(conversation.messages) :
           conversation \in {x \in Persisted : x.metadata.composerId = c}}

\* C31: the seen-set of a container holds only identifiers of fragments that
\* were emitted: an identifier enters it in a poll only if the poll emits a
\* message of that fragment in a conversation of the container, and at a
\* restart only if a persisted conversation of the container stores it; a
\* dropped fragment (unrecognized type, empty text, failed read) never enters.
C31_SeenOnlyIfEmitted ==
    [][\A c \in Composers : \A f \in Entering(c) :
          \/ \E i \in Slots : pc[i] = "load" /\ f \in EmittedFor(i, c)
          \/ restarted' /\ InFlight' = {} /\ f \in StoredFor(c)]_vars

\* C32: at activation the tracker is reseeded from all the persisted
\* conversations before the poll timer is started: while the timer is set or
\* a poll is in flight, loadSavedConversations has no file left to read and
\* the seen-sets hold every stored fragment identifier.
C32_ReseededBeforeStart ==
    (timer \/ InFlight # {}) =>
        /\ toLoad = {}
        /\ \A c \in Composers : StoredFor(c) \subseteq lastProcessedComposerIds[c]

\* a poll runs after a restart that reseeded the tracker from two files
C32_Witness ==
    /\ restarted
    /\ phase = "started"
    /\ timer
    /\ InFlight # {}
    /\ Cardinality(DOMAIN files) = 2
    /\ \A c \in Composers : StoredFor(c) # {}

\* C33: once a fragment identifier is in the seen-set of its container, no
\* later poll reads the record of that fragment, whatever the kind of the
\* workspace folder: the load step of a poll reads for no row the record of a
\* bubble that was in the row's seen-set when the poll started.
C33_SeenNeverReadAgain ==
    [][\A i \in Slots :
          (pc[i] = "load" /\ pc'[i] # "load") =>
              \A r \in RowSet :
                  bubbleReads(r, headers[r], lastProcessedComposerIds)
                      \cap lastProcessedComposerIds[extractComposerIdFromKey(r)]
                  = {}]_vars

\* the step is the load step of invocation i
LoadStep(i) == pc[i] = "load" /\ pc'[i] # "load"

\* the step starts a new process: activate() begins
ProcessStarts == phase # "loading" /\ phase' = "loading"

\* C34: within one process lifetime no fragment of a container is emitted by
\* more than one poll: what a poll emits for a container was in no seen-set
\* when the poll started and is in the seen-set when its load step ends, and
\* until the next process starts nothing leaves the seen-set, so every later
\* poll excludes it.
C34_EmittedByOnePoll ==
    [][\A c \in Composers :
          /\ \A i \in Slots :
                 LoadStep(i) =>
                     /\ EmittedFor(i, c) \cap lastProcessedComposerIds[c] = {}
                     /\ EmittedFor(i, c) \subseteq lastProcessedComposerIds'[c]
          /\ ~ProcessStarts =>
                 lastProcessedComposerIds[c] \subseteq lastProcessedComposerIds'[c]]_vars

\* the second poll of a process emitted f2 alone for the container that lists
\* f1 and f2, after the first poll emitted f1 and its conversation was saved
C34_Witness ==
    /\ ~restarted
    /\ clock = 2
    /\ headers["r1"] = <<"f1", "f2">>
    /\ \E conversation \in Persisted :
           BubbleSeq(conversation.messages) = <<"f1">>
    /\ \E conversation \in Pending :
           /\ conversation.metadata.filePath = "r1"
           /\ BubbleSeq(conversation.messages) = <<"f2">>

SkippedUnresolved(r) ==
    /\ Len(newBubbleIdsOf(headers[r],
               lastProcessedComposerIds[extractComposerIdFromKey(r)])) > 0
    /\ \/ getCurrentWorkspacePath = <<>>
       \/ extractWorkspacePathFromData(r) = <<>>
       \/ ~isSameWorkspace(extractWorkspacePathFromData(r), getCurrentWorkspacePath)

\* the listed bubbles of row r that are not in its seen-set and whose record
\* the step could read and gives a message
Emittable(r) ==
    {f \in {headers[r][n] : n \in 1..Len(headers[r])} :
        /\ f \notin lastProcessedComposerIds[extractComposerIdFromKey(r)]
        /\ <<extractComposerIdFromKey(r), f>> \notin failedReads'
        /\ BuildsMessage(f, {})}

\* C36: a poll that skips a container because its project context does not
\* resolve or does not match leaves the container's seen-set as it was, and a
\* poll in which the container resolves and matches emits every listed
\* fragment that is not in the seen-set: after skips only, all of them.
C36_SkipLeavesTracker ==
    [][\A i \in Slots : \A r \in RowSet :
          LoadStep(i) =>
              LET c == extractComposerIdFromKey(r)
              IN  /\ SkippedUnresolved(r) =>
                         lastProcessedComposerIds'[c] = lastProcessedComposerIds[c]
                  /\ ~SkippedUnresolved(r) => EmittedFor(i, c) = Emittable(r)]_vars

\* the first poll went over the container while it listed f1, and the second
\* poll emitted f1 and f2 together
C36_Witness ==
    /\ clock = 2
    /\ lastProcessedComposerIds["c1"] = {"f1", "f2"}
    /\ \E conversation \in Pending :
           /\ conversation.metadata.filePath = "r1"
           /\ BubbleSeq(conversation.messages) = <<"f1", "f2">>

----------------------------------------------------------------------------
(* Frame of a poll *)

\* every bubble the container of row r lists is in its seen-set
NothingNew(r) ==
    \A n \in 1..Len(headers[r]) :
        headers[r][n] \in lastProcessedComposerIds[extractComposerIdFromKey(r)]

\* the step of invocation i is a turn of its save loop
SaveStep(i) == pc[i] = "save" /\ queue'[i] # queue[i]

\* C37: a poll that finds no new fragment for a container leaves the
\* container's persisted record as it is, updatedAt included, and computes no
\* since-checkpoint output for it: its load step writes no file and no output
\* and queues no conversation of the container (none at all, and the poll
\* ends, when no container has a new fragment), and a turn of a save loop
\* changes no file but the one of the conversation it saves.
C37_NothingNewNothingWritten ==
    [][\A i \in Slots :
          /\ LoadStep(i) =>
                 /\ files' = files
                 /\ latest' = latest
                 /\ \A r \in RowSet :
                        NothingNew(r) =>
                            \A n \in 1..Len(queue'[i]) :
                                queue'[i][n].metadata.filePath # r
                 /\ (\A r \in RowSet : NothingNew(r)) => pc'[i] = "idle"
          /\ SaveStep(i) =>
                 \A fileName \in DOMAIN files \ {FileName(Head(queue[i]))} :
                     /\ fileName \in DOMAIN files'
                     /\ files'[fileName] = files[fileName]]_vars

\* the second poll found nothing new for c1 and a new fragment for c2: it has
\* created the file of c2, and the file of c1 is as the first poll wrote it
C37_Witness ==
    /\ ~restarted
    /\ clock = 2
    /\ InFlight = {}
    /\ outcome = "created"
    /\ \E conversation \in Persisted :
           /\ conversation.metadata.composerId = "c1"
           /\ conversation.updatedAt = toLocalString(StartTime + 1)
    /\ \E conversation \in Persisted :
           /\ conversation.metadata.composerId = "c2"
           /\ conversation.updatedAt = toLocalString(StartTime + 2)

----------------------------------------------------------------------------
(* Growth of the seen-sets *)

\* the step removes the persisted conversations
HistoryCleared == files # <<>> /\ files' = <<>>

\* C38: seen-sets only grow: no step of a process (poll, reseed,
\* updateConfiguration, dispose, clearHistory) takes an identifier out of a
\* seen-set; clearHistory removes the persisted conversations and leaves the
\* tracker as it is, and a poll queues for saving no fragment that is in the
\* seen-set, so what was seen before clearHistory is not persisted again.
C38_SeenSetsOnlyGrow ==
    [][~ProcessStarts =>
          /\ \A c \in Composers :
                 lastProcessedComposerIds[c] \subseteq lastProcessedComposerIds'[c]
          /\ HistoryCleared =>
                 lastProcessedComposerIds' = lastProcessedComposerIds
          /\ \A i \in Slots : \A c \in Composers :
                 LoadStep(i) =>
                     EmittedFor(i, c) \cap lastProcessedComposerIds[c] = {}]_vars

\* f1 was emitted and the history cleared; a later poll of the same process
\* persisted f2 alone for the container that lists f1 and f2
C38_Witness ==
    /\ ~restarted
    /\ headers["r1"] = <<"f1", "f2">>
    /\ lastProcessedComposerIds["c1"] = {"f1", "f2"}
    /\ \A id \in DOMAIN conversations :
           "f1" \notin BubbleIdsOf(conversations[id].messages)
    /\ \E conversation \in Persisted :
           /\ conversation.metadata.composerId = "c1"
           /\ BubbleSeq(conversation.messages) = <<"f2">>

----------------------------------------------------------------------------
(* Merge-persists in progress *)

\* the invocations that are in their save loop
Saving == {i \in Slots : pc[i] = "save"}

\* C39: at most one merge-persist issued by polling is in progress at any
\* time: at most one invocation is in its save loop, only an invocation in
\* its save loop holds a read of a conversation file, and the file it read is
\* unchanged until it overwrites it, so no other poll-driven write comes
\* between the read and the overwrite.
C39_OneMergePersistAtATime ==
    /\ Cardinality(Saving) <= 1
    /\ \A i \in Slots :
           existingContent[i].state # "none" =>
               /\ i \in Saving
               /\ AsRead(files, FileName(Head(queue[i])), existingContent[i]) = files

\* a timer tick was dropped while a saveConversation had read the file it
\* merges into and had not written it yet
C39_Witness ==
    /\ outcome = "dropped"
    /\ \E i \in Slots : existingContent[i].state = "found"

----------------------------------------------------------------------------
(* After dispose() *)

\* C40: after dispose() no new poll cycle begins: while the monitor is
\* disposed its timer is cleared, so no tick fires, no invocation goes to its
\* candidate query, and a trigger returns at a guard of checkForChanges
\* without a query, a write or a change of the tracker.
C40_NoPollAfterDispose ==
    [][(phase = "disposed" /\ phase' = "disposed") =>
          /\ ~timer /\ ~timer'
          /\ ~PollStarts
          /\ outcome' \in {"dropped", "nodb"} =>
                 UNCHANGED <<files, latest, pc, queue, lastProcessedComposerIds,
                             conversations, clock>>]_vars

\* a manual trigger returned at the connection guard of a disposed monitor
\* that had polled and saved a conversation before
C40_Witness ==
    /\ phase = "disposed"
    /\ outcome = "nodb"
    /\ clock > 0
    /\ files # <<>>

====
